---- MODULE Spec2Model ----
(***************************************************************************)
(* Pre-sale housing risk analytics (area-risk-flagging).                   *)
(*                                                                         *)
(* Part 1: WorkingPreSaleRiskAnalyzer.classify_risk_with_relative_option   *)
(*         (area_risk_flagging/test_2.py): Phase A absolute scoring and    *)
(*         Phase B peer-relative scoring within a city.                    *)
(* Part 2: PresaleMarketAnalysis main flow (area_risk_flagging/test.py)    *)
(*         and the record linker of utils/helper_func.py.                  *)
(*         A session of calls on one PresaleMarketAnalysis object, in any  *)
(*         order, records the method last called in fn_name and how the    *)
(*         call ended in fn_out.                                           *)
(* Part 3: pure functions applied to drawn inputs: the date normalizers,   *)
(*         categorize_performance, sales_start_time, and repeated runs of  *)
(*         _process_sales_time_data under different clock readings.        *)
(*                                                                         *)
(* Units.  Rates (時間調整去化率, 月去化率) are held in thousandths, so    *)
(* 0.25 is 250 and 0.005 is 5.  Months and counts are plain integers.      *)
(* In Part 2 去化率 and 月均去化率 are held in hundredths of a percent     *)
(* (20% is 2000) and 銷售月數 in 1/3044 of a month (0.5 month is 1522).     *)
(* A missing float (pandas NaN) is the value NaN; every comparison with    *)
(* NaN is false, as in Python.                                             *)
(***************************************************************************)
EXTENDS Integers, Sequences, FiniteSets, TLC

VARIABLES
    indicators,      \* the caller's indicators table (argument of classify_risk_with_relative_option)
    use_relative,    \* the use_relative argument
    result,          \* the local `result` table of classify_risk_with_relative_option
    pc,              \* position inside classify_risk_with_relative_option
    community_data,  \* PresaleMarketAnalysis.community_data
    transaction_data,\* PresaleMarketAnalysis.transaction_data
    lpc,             \* position inside main() of test.py
    matched_count,   \* local matched_count of preprocess_data
    preprocess_ret,  \* value returned by preprocess_data
    analysis_result, \* PresaleMarketAnalysis.analysis_result
    city_analysis,   \* PresaleMarketAnalysis.city_analysis
    district_analysis,\* PresaleMarketAnalysis.district_analysis
    transaction_counts, \* value of calculate_presale_transaction_counts
    quarterly_analysis, \* PresaleMarketAnalysis.quarterly_analysis
    city_detailed_analysis, \* PresaleMarketAnalysis.city_detailed_analysis
    fn_name,         \* the function or pipeline applied to a drawn input
    fn_arg,          \* its input
    fn_out           \* what it returned (None until it has run)

vars == <<indicators, use_relative, result, pc, community_data, transaction_data,
          lpc, matched_count, preprocess_ret, analysis_result, city_analysis, district_analysis,
          transaction_counts, quarterly_analysis, city_detailed_analysis,
          fn_name, fn_arg, fn_out>>

riskVars == <<indicators, use_relative, result, pc>>

linkVars == <<community_data, transaction_data, lpc, matched_count, preprocess_ret, analysis_result,
              city_analysis, district_analysis, transaction_counts, quarterly_analysis,
              city_detailed_analysis>>

fnVars == <<fn_name, fn_arg, fn_out>>

----------------------------------------------------------------------------
(* Bounds of the model *)

MaxRows == 4

MaxWideRows == 1

MaxCommunities == 2

MaxTransactions == 2

\* number of runs of the sales-time preprocessing on one input
MaxRuns == 2

\* most rows of the table whose 時間調整去化率 column is computed
MaxRateRows == 2

\* most rows of the table passed to correct_sales_start_date
MaxDateRows == 2

\* most rows of the table passed to process_duplicate_communities
MaxDupRows == 3

----------------------------------------------------------------------------
(* Values *)

NaN == -1

\* an optional value is None or Some(v)
None == <<>>

Some(v) == <<v>>

ValueOf(opt) == opt[1]

\* a missing value of a text column (NaN in an object column)
Missing == "<NaN>"

IsNaN(x) == x = NaN

\* Python float comparisons: false as soon as one side is NaN
Lt(x, y) == ~IsNaN(x) /\ ~IsNaN(y) /\ x < y

Gt(x, y) == ~IsNaN(x) /\ ~IsNaN(y) /\ x > y

HighRisk == "high"

MediumRisk == "medium"

LowRisk == "low"

RiskLevels == {HighRisk, MediumRisk, LowRisk}

SeqSum(s) == LET F[k \in 0..Len(s)] == IF k = 0 THEN 0 ELSE F[k - 1] + s[k] IN F[Len(s)]

SetToSortedSeq(S) ==
    LET F[T \in SUBSET S] ==
            IF T = {} THEN <<>>
            ELSE LET m == CHOOSE x \in T : \A y \in T : x <= y
                 IN <<m>> \o F[T \ {m}]
    IN F[S]

----------------------------------------------------------------------------
(* Phase A: _absolute_risk_classification *)

\* variant: the second rule of each pair tested by its own `if`
FiredRulesIndependent(row) ==
    (IF Lt(row.rate, 250) THEN << <<"time_adj_rate_low", 3>> >> ELSE <<>>)
    \o (IF Gt(row.rate, 650) THEN << <<"possible_oversell", 1>> >> ELSE <<>>)
    \o (IF Lt(row.monthly, 50) THEN << <<"sales_efficiency_low", 2>> >> ELSE <<>>)
    \o (IF row.trans = 0 THEN << <<"no_transactions", 4>> >> ELSE <<>>)
    \o (IF Lt(row.trans, 5) THEN << <<"volume_very_low", 2>> >> ELSE <<>>)
    \o (IF Gt(row.months, 36) THEN << <<"sales_period_long", 1>> >> ELSE <<>>)

\* the rules of one row, in the order of the loop body; each entry is
\* <<factor, weight>>
FiredRules(row) ==
    (IF Lt(row.rate, 250) THEN << <<"time_adj_rate_low", 3>> >>
     ELSE IF Gt(row.rate, 650) THEN << <<"possible_oversell", 1>> >>
     ELSE <<>>)
    \o (IF Lt(row.monthly, 50) THEN << <<"sales_efficiency_low", 2>> >> ELSE <<>>)
    \o (IF row.trans = 0 THEN << <<"no_transactions", 4>> >>
        ELSE IF Lt(row.trans, 5) THEN << <<"volume_very_low", 2>> >>
        ELSE <<>>)
    \o (IF Gt(row.months, 36) THEN << <<"sales_period_long", 1>> >> ELSE <<>>)

RiskScoreOf(row) == SeqSum([k \in 1..Len(FiredRules(row)) |-> FiredRules(row)[k][2]])

\* '; '.join(risk_factors) if risk_factors else '無明顯風險'
RiskFactorsOf(row) ==
    IF FiredRules(row) = <<>> THEN <<"no_obvious_risk">>
    ELSE [k \in 1..Len(FiredRules(row)) |-> FiredRules(row)[k][1]]

\* variant: the high cut-off taken strictly
AbsoluteLevelOfStrict(score) ==
    IF score > 5 THEN HighRisk
    ELSE IF 2 * score >= 5 THEN MediumRisk
    ELSE LowRisk

\* risk_score >= 5 high, >= 2.5 medium (scores are integers: 2.5 <= s iff 3 <= s)
AbsoluteLevelOf(score) ==
    IF score >= 5 THEN HighRisk
    ELSE IF 2 * score >= 5 THEN MediumRisk
    ELSE LowRisk

AbsoluteRow(row) ==
    [region |-> row.region, quarter |-> row.quarter, rate |-> row.rate,
     monthly |-> row.monthly, trans |-> row.trans, months |-> row.months,
     abs_level |-> AbsoluteLevelOf(RiskScoreOf(row)),
     risk_score |-> RiskScoreOf(row),
     risk_factors |-> RiskFactorsOf(row),
     risk_level |-> AbsoluteLevelOf(RiskScoreOf(row))]

\* result = data.copy(); per-row scoring; 風險等級 = 絕對風險等級
AbsoluteRiskClassification(data) == [i \in 1..Len(data) |-> AbsoluteRow(data[i])]

----------------------------------------------------------------------------
(* Phase B: _relative_risk_classification *)

high_risk_threshold == 25

medium_risk_threshold == 50

min_transactions == 1

min_time_adj_rate == 5

max_sales_months == 60

\* result['地區'].str.split('-').str[0]; a region is <<city, district>>
CityOf(region) == region[1]

\* positions of the rows of one city, in table order (result[city_mask])
CityRows(data, city) == {j \in 1..Len(data) : CityOf(data[j].region) = city}

RECURSIVE SortDescFrom(_, _)
SortDescFrom(vals, T) ==
    IF T = {} THEN <<>>
    ELSE LET m == CHOOSE x \in T : \A y \in T : vals[x] >= vals[y]
         IN <<vals[m]>> \o SortDescFrom(vals, T \ {m})

\* values sorted in descending order (the sort inside Series.rank(ascending=False))
SortDesc(vals) == SortDescFrom(vals, DOMAIN vals)

\* variant: method='max', the last position of the value in the sort
RankMaxDesc(vals) ==
    LET sorted == SortDesc(vals)
    IN [i \in DOMAIN vals |->
          CHOOSE k \in 1..Len(sorted) :
             /\ sorted[k] = vals[i]
             /\ \A m \in (k + 1)..Len(sorted) : sorted[m] # vals[i]]

\* Series.rank(method='min', ascending=False): every value gets the first
\* position of its value in the descending sort
RankMinDesc(vals) ==
    LET sorted == SortDesc(vals)
    IN [i \in DOMAIN vals |->
          CHOOSE k \in 1..Len(sorted) :
             /\ sorted[k] = vals[i]
             /\ \A m \in 1..(k - 1) : sorted[m] # vals[i]]

\* float64 evaluation of r1 * 0.4 + r2 * 0.3 + r3 * 0.3 for integer ranks
\* up to 6: the rank triples whose double lies one step below (above) the
\* double nearest to (4 r1 + 3 r2 + 3 r3) / 10
FloatBelow ==
    {<<1,1,2>>, <<1,1,3>>, <<1,3,1>>, <<1,3,3>>, <<1,3,6>>, <<1,5,1>>, <<1,5,4>>,
     <<1,5,6>>, <<1,6,1>>, <<1,6,3>>, <<1,6,4>>, <<1,6,5>>, <<1,6,6>>, <<2,2,4>>,
     <<2,2,6>>, <<2,3,3>>, <<2,5,1>>, <<2,5,3>>, <<2,6,1>>, <<2,6,2>>, <<2,6,3>>,
     <<2,6,6>>, <<4,4,1>>, <<4,4,3>>, <<4,6,1>>, <<4,6,6>>, <<5,1,1>>, <<5,1,3>>,
     <<5,3,1>>, <<5,3,6>>, <<5,6,2>>, <<5,6,3>>}

FloatAbove ==
    {<<1,4,1>>, <<2,1,1>>, <<2,1,2>>, <<3,1,1>>, <<3,1,3>>, <<3,2,2>>, <<3,2,5>>,
     <<3,4,2>>, <<3,4,3>>, <<3,4,4>>, <<3,4,5>>, <<3,5,2>>, <<3,5,4>>, <<4,1,5>>,
     <<4,2,2>>, <<4,2,4>>, <<5,4,2>>, <<6,1,2>>, <<6,1,4>>, <<6,2,1>>, <<6,2,2>>,
     <<6,2,3>>, <<6,2,6>>, <<6,3,2>>, <<6,3,5>>, <<6,4,1>>, <<6,4,4>>, <<6,4,5>>,
     <<6,5,3>>, <<6,5,4>>}

\* composite_rank = time_adj_rank * 0.4 + monthly_rank * 0.3 + transaction_rank * 0.3
\* as [tenths, ulp]: the exact value in tenths and the float deviation
CompositeRank(r1, r2, r3) ==
    [tenths |-> 4 * r1 + 3 * r2 + 3 * r3,
     ulp |-> IF <<r1, r2, r3>> \in FloatBelow THEN -1
             ELSE IF <<r1, r2, r3>> \in FloatAbove THEN 1 ELSE 0]

\* order of two composite ranks as float64 values
CompositeLess(a, b) ==
    \/ a.tenths < b.tenths
    \/ a.tenths = b.tenths /\ a.ulp < b.ulp

\* composite_rank.rank(pct=True) * 100: average rank, ascending, over the
\* count, as the fraction num / den
PctRank(comps) ==
    [i \in DOMAIN comps |->
       LET less == Cardinality({j \in DOMAIN comps : CompositeLess(comps[j], comps[i])})
           same == Cardinality({j \in DOMAIN comps : comps[j] = comps[i]})
       IN [num |-> 100 * (2 * less + same + 1), den |-> 2 * Cardinality(DOMAIN comps)]]

PctLe(p, t) == p.num <= t * p.den

PctLess(p, q) == p.num * q.den < q.num * p.den

\* f"{composite_rank:.0f}": round to the nearest integer, halves to even,
\* of the float value
FormatRank(c) ==
    LET q == c.tenths \div 10
        r == c.tenths % 10
    IN IF r < 5 THEN q
       ELSE IF r > 5 THEN q + 1
       ELSE IF c.ulp < 0 THEN q
       ELSE IF c.ulp > 0 THEN q + 1
       ELSE IF q % 2 = 0 THEN q ELSE q + 1

\* variant: the transaction minimum is not checked
AbsoluteIssuesNoTransactions(row) ==
    (IF Lt(row.rate, min_time_adj_rate) THEN <<"rate_extremely_low">> ELSE <<>>)
    \o (IF Gt(row.months, max_sales_months) THEN <<"sales_period_too_long">> ELSE <<>>)

\* the check of the absolute minimums of one row
AbsoluteIssues(row) ==
    (IF Lt(row.trans, min_transactions) THEN <<"transactions_too_low">> ELSE <<>>)
    \o (IF Lt(row.rate, min_time_adj_rate) THEN <<"rate_extremely_low">> ELSE <<>>)
    \o (IF Gt(row.months, max_sales_months) THEN <<"sales_period_too_long">> ELSE <<>>)

ZeroPct == [num |-> 0, den |-> 1]

ZeroRank == [tenths |-> 0, ulp |-> 0]

Reason(kind, issues, place) == [kind |-> kind, issues |-> issues, place |-> place]

\* variant: the high-risk threshold taken strictly (percentile < 25)
RelativeLevelStrict(row, percentile, comp) ==
    IF AbsoluteIssues(row) # <<>>
    THEN <<HighRisk, Reason("absolute_minimum", AbsoluteIssues(row), 0)>>
    ELSE IF percentile.num < high_risk_threshold * percentile.den
    THEN <<HighRisk, Reason("city_bottom", <<>>, FormatRank(comp))>>
    ELSE IF PctLe(percentile, medium_risk_threshold)
    THEN <<MediumRisk, Reason("city_middle", <<>>, FormatRank(comp))>>
    ELSE <<LowRisk, Reason("city_top", <<>>, FormatRank(comp))>>

\* level and reason of a row of a city that is scored relatively
RelativeLevel(row, percentile, comp) ==
    IF AbsoluteIssues(row) # <<>>
    THEN <<HighRisk, Reason("absolute_minimum", AbsoluteIssues(row), 0)>>
    ELSE IF PctLe(percentile, high_risk_threshold)
    THEN <<HighRisk, Reason("city_bottom", <<>>, FormatRank(comp))>>
    ELSE IF PctLe(percentile, medium_risk_threshold)
    THEN <<MediumRisk, Reason("city_middle", <<>>, FormatRank(comp))>>
    ELSE <<LowRisk, Reason("city_top", <<>>, FormatRank(comp))>>

\* variant: 風險等級 is left as Phase A set it
RelativeRecordKeepsLevel(row, level, rank, pct, reason) ==
    [region |-> row.region, quarter |-> row.quarter, rate |-> row.rate,
     monthly |-> row.monthly, trans |-> row.trans, months |-> row.months,
     abs_level |-> row.abs_level, risk_score |-> row.risk_score,
     risk_factors |-> row.risk_factors,
     county |-> CityOf(row.region),
     rel_level |-> level, city_rank |-> rank, city_pct |-> pct, rel_reason |-> reason,
     risk_level |-> row.risk_level]

\* variant: the relative level is written into 絕對風險等級 as well
RelativeRecordOverwrites(row, level, rank, pct, reason) ==
    [region |-> row.region, quarter |-> row.quarter, rate |-> row.rate,
     monthly |-> row.monthly, trans |-> row.trans, months |-> row.months,
     abs_level |-> level, risk_score |-> row.risk_score,
     risk_factors |-> row.risk_factors,
     county |-> CityOf(row.region),
     rel_level |-> level, city_rank |-> rank, city_pct |-> pct, rel_reason |-> reason,
     risk_level |-> level]

\* a row of the result of Phase B: the columns of Phase A plus 縣市,
\* 相對風險等級, 縣市內排名, 縣市內百分位, 相對風險原因, and 風險等級
RelativeRecord(row, level, rank, pct, reason) ==
    [region |-> row.region, quarter |-> row.quarter, rate |-> row.rate,
     monthly |-> row.monthly, trans |-> row.trans, months |-> row.months,
     abs_level |-> row.abs_level, risk_score |-> row.risk_score,
     risk_factors |-> row.risk_factors,
     county |-> CityOf(row.region),
     rel_level |-> level, city_rank |-> rank, city_pct |-> pct, rel_reason |-> reason,
     risk_level |-> level]

\* the composite ranks and percentiles of the rows of one city (city_data)
CityScores(data, city) ==
    LET rows == SetToSortedSeq(CityRows(data, city))
        n == Len(rows)
        time_adj_rank == RankMinDesc([k \in 1..n |-> data[rows[k]].rate])
        monthly_rank == RankMinDesc([k \in 1..n |-> data[rows[k]].monthly])
        transaction_rank == RankMinDesc([k \in 1..n |-> data[rows[k]].trans])
        composite_rank == [k \in 1..n |-> CompositeRank(time_adj_rank[k], monthly_rank[k],
                                                        transaction_rank[k])]
    IN [rows |-> rows, composite_rank |-> composite_rank,
        percentiles |-> PctRank(composite_rank)]

\* one row of the result of Phase B; cs is CityScores of the city of the row
RelativeRow(data, i, cs) ==
    LET n == Len(cs.rows)
        me == CHOOSE k \in 1..n : cs.rows[k] = i
        lr == RelativeLevel(data[i], cs.percentiles[me], cs.composite_rank[me])
    IN IF n < 3
       THEN RelativeRecord(data[i], data[i].abs_level, ZeroRank, ZeroPct,
                           Reason("too_few_districts_absolute_used", <<>>, 0))
       ELSE RelativeRecord(data[i], lr[1], cs.composite_rank[me], cs.percentiles[me], lr[2])

\* result = data.copy(); every city in turn; 風險等級 = 相對風險等級
RelativeRiskClassification(data) ==
    LET cities == {CityOf(data[j].region) : j \in 1..Len(data)}
        scores == [c \in cities |-> CityScores(data, c)]
    IN [i \in 1..Len(data) |-> RelativeRow(data, i, scores[CityOf(data[i].region)])]

----------------------------------------------------------------------------
(* Inputs of classify_risk_with_relative_option *)

\* (quarter, region) keys of an indicators table in the order in which
\* calculate_time_adjusted_absorption_rate emits them: quarter by quarter,
\* regions sorted inside a quarter, one row per key
Keys ==
    << [quarter |-> 1, region |-> <<"A", "d1">>],
       [quarter |-> 1, region |-> <<"A", "d2">>],
       [quarter |-> 1, region |-> <<"A", "d3">>],
       [quarter |-> 1, region |-> <<"B", "d1">>],
       [quarter |-> 2, region |-> <<"A", "d1">>],
       [quarter |-> 2, region |-> <<"B", "d1">>] >>

\* metric values of a row: rate and monthly in thousandths
Profiles ==
    { [rate |-> 400, monthly |-> 80, trans |-> 8,  months |-> 12],
      [rate |-> 700, monthly |-> 60, trans |-> 20, months |-> 12],
      [rate |-> 100, monthly |-> 10, trans |-> 3,  months |-> 40],
      [rate |-> 300, monthly |-> 80, trans |-> 0,  months |-> 12],
      [rate |-> 500, monthly |-> 60, trans |-> 10, months |-> 70],
      [rate |-> 2,   monthly |-> 90, trans |-> 6,  months |-> NaN] }

\* metric values on both sides of every threshold of Phase A and Phase B
WideProfiles ==
    [rate : {4, 5, 249, 250, 650, 651}, monthly : {49, 50},
     trans : {0, 1, 4, 5}, months : {NaN, 36, 37, 60, 61}]

IndicatorRow(key, m) ==
    [region |-> key.region, quarter |-> key.quarter, rate |-> m.rate,
     monthly |-> m.monthly, trans |-> m.trans, months |-> m.months]

\* the table whose keys are the positions S of Keys, with metrics f
MakeTable(S, f) ==
    LET order == SetToSortedSeq(S)
    IN [k \in 1..Len(order) |-> IndicatorRow(Keys[order[k]], f[order[k]])]

LinkIdle ==
    /\ community_data = <<>>
    /\ transaction_data = <<>>
    /\ lpc = "idle"
    /\ matched_count = None
    /\ preprocess_ret = None
    /\ analysis_result = None
    /\ city_analysis = None
    /\ district_analysis = None
    /\ transaction_counts = None
    /\ quarterly_analysis = None
    /\ city_detailed_analysis = None

FnIdle ==
    /\ fn_name = "idle"
    /\ fn_arg = <<>>
    /\ fn_out = None

Init ==
    /\ \E S \in SUBSET (1..Len(Keys)) :
          /\ Cardinality(S) \in 1..MaxRows
          /\ \E f \in [S -> Profiles] : indicators = MakeTable(S, f)
    /\ use_relative \in BOOLEAN
    /\ result = <<>>
    /\ pc = "absolute"
    /\ LinkIdle
    /\ FnIdle

InitWide ==
    /\ \E S \in SUBSET (1..2) :
          /\ Cardinality(S) \in 1..MaxWideRows
          /\ \E f \in [S -> WideProfiles] : indicators = MakeTable(S, f)
    /\ use_relative \in BOOLEAN
    /\ result = <<>>
    /\ pc = "absolute"
    /\ LinkIdle
    /\ FnIdle

----------------------------------------------------------------------------
(* classify_risk_with_relative_option *)

\* result = indicators.copy(); result = self._absolute_risk_classification(result)
AbsolutePhase ==
    /\ pc = "absolute"
    /\ result' = AbsoluteRiskClassification(indicators)
    /\ pc' = IF use_relative THEN "relative" ELSE "done"
    /\ UNCHANGED <<indicators, use_relative>>
    /\ UNCHANGED <<linkVars, fnVars>>

\* if use_relative: result = self._relative_risk_classification(result)
RelativePhase ==
    /\ pc = "relative"
    /\ result' = RelativeRiskClassification(result)
    /\ pc' = "done"
    /\ UNCHANGED <<indicators, use_relative>>
    /\ UNCHANGED <<linkVars, fnVars>>

Next == AbsolutePhase \/ RelativePhase

Spec == Init /\ [][Next]_vars

SpecWide == InitWide /\ [][Next]_vars

----------------------------------------------------------------------------
(* Record linker of utils/helper_func.py *)

\* str.strip() on the identifier texts of the model: "X " is X followed by
\* a blank, " " is a blank token
Strip(s) == IF s = "X " THEN "X" ELSE IF s = " " THEN "" ELSE s

RECURSIVE SelectSeqBy(_, _)
SelectSeqBy(s, keep) ==
    IF s = <<>> THEN <<>>
    ELSE (IF Head(s) \in keep THEN <<Head(s)>> ELSE <<>>) \o SelectSeqBy(Tail(s), keep)

\* parse_id_string: the text is modelled as the sequence of its pieces
\* between commas; a missing or blank text gives [], blank pieces are skipped
parse_id_string(text) ==
    IF text = Missing THEN <<>>
    ELSE LET stripped == [k \in 1..Len(text) |-> Strip(text[k])]
         IN SelectSeqBy(stripped, {stripped[k] : k \in 1..Len(stripped)} \ {""})

\* transaction_df['備查編號'].value_counts().to_dict(): missing values are
\* not counted, the raw values are the keys
IdTransactionCounts(transaction_df) ==
    [v \in {transaction_df[k].ref : k \in 1..Len(transaction_df)} \ {Missing} |->
        Cardinality({k \in 1..Len(transaction_df) : transaction_df[k].ref = v})]

\* transaction side of the composite key: fillna('').astype(str), joined by '|'
TransactionKey(t) ==
    <<IF t.city = Missing THEN "" ELSE t.city,
      IF t.district = Missing THEN "" ELSE t.district,
      IF t.name = Missing THEN "" ELSE t.name>>

\* community side: f"{row.get('縣市', '')}|{row.get('行政區', '')}|{row.get('社區名稱', '')}",
\* where a missing value prints as 'nan'
CommunityKey(c) ==
    <<IF c.city = Missing THEN "nan" ELSE c.city,
      IF c.district = Missing THEN "nan" ELSE c.district,
      IF c.name = Missing THEN "nan" ELSE c.name>>

\* composite_keys.value_counts()
CompositeKeyCounts(transaction_df) ==
    [key \in {TransactionKey(transaction_df[k]) : k \in 1..Len(transaction_df)} |->
        Cardinality({k \in 1..Len(transaction_df) : TransactionKey(transaction_df[k]) = key})]

count_transactions_for_communityKeyFirst(row, id_transaction_counts, composite_key_counts) ==
    LET id_list == parse_id_string(row.id_list)
        found_ids == SelectSeqBy(id_list, DOMAIN id_transaction_counts)
    IN IF CommunityKey(row) \in DOMAIN composite_key_counts
       THEN composite_key_counts[CommunityKey(row)]
       ELSE IF id_list # <<>> /\ found_ids # <<>>
            THEN SeqSum([k \in 1..Len(found_ids) |-> id_transaction_counts[found_ids[k]]])
            ELSE 0

count_transactions_for_community(row, id_transaction_counts, composite_key_counts) ==
    LET id_list == parse_id_string(row.id_list)
        found_ids == SelectSeqBy(id_list, DOMAIN id_transaction_counts)
    IN IF id_list # <<>> /\ found_ids # <<>>
       THEN SeqSum([k \in 1..Len(found_ids) |-> id_transaction_counts[found_ids[k]]])
       ELSE IF CommunityKey(row) \in DOMAIN composite_key_counts
            THEN composite_key_counts[CommunityKey(row)]
            ELSE 0

calculate_presale_transaction_counts(community_df, transaction_df) ==
    [i \in 1..Len(community_df) |->
        count_transactions_for_community(community_df[i],
                                         IdTransactionCounts(transaction_df),
                                         CompositeKeyCounts(transaction_df))]

----------------------------------------------------------------------------
(* Date normalizers: PresaleMarketAnalysis.convert_taiwan_date (test.py),   *)
(* WorkingPreSaleRiskAnalyzer._convert_roc_date (test_2.py) and             *)
(* parse_mixed_date_to_datetime (utils/helper_analysis.py).                 *)
(* A text is the sequence of its character codes: '-' is 45, '0'..'9' are   *)
(* 48..57.  A date is <<year, month, day>>.                                 *)

MinusSign == 45

RECURSIVE Digits(_)
Digits(n) == IF n < 10 THEN <<48 + n>> ELSE Digits(n \div 10) \o <<48 + (n % 10)>>

\* str(int(date_val))
PyStr(n) == IF n < 0 THEN <<MinusSign>> \o Digits(-n) ELSE Digits(n)

IsDigitString(s) == s # <<>> /\ \A k \in 1..Len(s) : s[k] \in 48..57

RECURSIVE DigitsValue(_)
DigitsValue(s) ==
    IF s = <<>> THEN 0
    ELSE DigitsValue(SubSeq(s, 1, Len(s) - 1)) * 10 + (s[Len(s)] - 48)

\* int(text): None stands for the ValueError of a text that is not a number
PyInt(s) ==
    IF IsDigitString(s) THEN Some(DigitsValue(s))
    ELSE IF s # <<>> /\ s[1] = MinusSign /\ IsDigitString(Tail(s))
         THEN Some(0 - DigitsValue(Tail(s)))
         ELSE None

\* text[a:b]
Slice(s, a, b) == SubSeq(s, a + 1, IF b < Len(s) THEN b ELSE Len(s))

IsLeap(y) == (y % 4 = 0 /\ y % 100 # 0) \/ y % 400 = 0

DaysInMonth(y, m) ==
    IF m = 2 THEN (IF IsLeap(y) THEN 29 ELSE 28)
    ELSE IF m \in {4, 6, 9, 11} THEN 30 ELSE 31

\* datetime(year, month, day): None stands for the ValueError of a date that
\* does not exist
MakeDate(y, m, d) ==
    IF y \in 1..9999 /\ m \in 1..12 /\ d >= 1 /\ d <= DaysInMonth(y, m)
    THEN Some(<<y, m, d>>)
    ELSE None

\* year = int(date_str[:3]) + 1911; month = int(date_str[3:5]);
\* day = int(date_str[5:dayEnd]); return datetime(year, month, day), every
\* exception turned into None by the caller's except clause
DateFromText(date_str, dayEnd) ==
    LET year == PyInt(Slice(date_str, 0, 3))
        month == PyInt(Slice(date_str, 3, 5))
        day == PyInt(Slice(date_str, 5, dayEnd))
    IN IF year = None \/ month = None \/ day = None THEN None
       ELSE MakeDate(ValueOf(year) + 1911, ValueOf(month), ValueOf(day))

convert_taiwan_date(date_val) ==
    IF date_val = NaN \/ date_val = 0 THEN None
    ELSE LET date_str == PyStr(date_val)
         IN IF Len(date_str) = 7 THEN DateFromText(date_str, 7)
            ELSE IF Len(date_str) = 6 THEN DateFromText(date_str, 6)
            ELSE None

convert_roc_date(roc_date) ==
    IF roc_date = NaN THEN None
    ELSE LET date_str == PyStr(roc_date)
         IN IF Len(date_str) = 7 THEN DateFromText(date_str, 7)
            ELSE IF Len(date_str) = 6 THEN DateFromText(date_str, 6)
            ELSE None

\* pd.to_datetime(date_str, errors='coerce') on a text of digits that is
\* not 7 long: pandas knows no era years, the text is either not a date
\* (NaT) or six digits read as a Gregorian yymmdd
to_datetime(date_str) ==
    {None} \cup
    (IF IsDigitString(date_str) /\ Len(date_str) = 6
     THEN LET yy == DigitsValue(Slice(date_str, 0, 2))
              mm == DigitsValue(Slice(date_str, 2, 4))
              dd == DigitsValue(Slice(date_str, 4, 6))
          IN {MakeDate(1900 + yy, mm, dd), MakeDate(2000 + yy, mm, dd)}
     ELSE {})

\* the values parse_mixed_date_to_datetime can return for an integer or a
\* missing value (pd.NaT is None)
parse_mixed_date_to_datetime(date_value) ==
    IF date_value = NaN THEN {None}
    ELSE LET date_str == PyStr(date_value)
         IN IF IsDigitString(date_str) /\ Len(date_str) = 7
            THEN {DateFromText(date_str, 7)}
            ELSE to_datetime(date_str)

----------------------------------------------------------------------------
(* categorize_performance of calculate_time_adjusted_absorption_rate        *)
(* (test.py).  去化率 is rounded to 2 decimals and held in hundredths of a   *)
(* percent: 20% is 2000.  Labels: 新案熱銷 hot_new_launch, 新案穩健          *)
(* steady_new_launch, 新案待觀察 watch, 銷售優異 excellent, 銷售良好 good,   *)
(* 銷售普通 average, 銷售緩慢 slow, 長期穩健 stable_long_term, 持續銷售      *)
(* continuing, 銷售遲緩 sluggish, 去化困難 difficult.                        *)

categorize_performanceInclusive(row) ==
    IF row.days <= 90
    THEN IF row.rate >= 2000 THEN "hot_new_launch"
         ELSE IF row.rate >= 1000 THEN "steady_new_launch"
         ELSE "watch"
    ELSE IF row.days <= 365
    THEN IF row.rate >= 7000 THEN "excellent"
         ELSE IF row.rate >= 4000 THEN "good"
         ELSE IF row.rate >= 2000 THEN "average"
         ELSE "slow"
    ELSE IF row.rate >= 8000 THEN "stable_long_term"
         ELSE IF row.rate >= 5000 THEN "continuing"
         ELSE IF row.rate >= 3000 THEN "sluggish"
         ELSE "difficult"

categorize_performance(row) ==
    IF row.days < 90
    THEN IF row.rate > 2000 THEN "hot_new_launch"
         ELSE IF row.rate > 1000 THEN "steady_new_launch"
         ELSE "watch"
    ELSE IF row.days < 365
    THEN IF row.rate > 7000 THEN "excellent"
         ELSE IF row.rate > 4000 THEN "good"
         ELSE IF row.rate > 2000 THEN "average"
         ELSE "slow"
    ELSE IF row.rate > 8000 THEN "stable_long_term"
         ELSE IF row.rate > 5000 THEN "continuing"
         ELSE IF row.rate > 3000 THEN "sluggish"
         ELSE "difficult"

----------------------------------------------------------------------------
(* PresaleMarketAnalysis of area_risk_flagging/test.py *)

\* DataFrame.dropna(subset=cols) for the text and number columns of the model
HasAll(row, textCols, numberCols) ==
    /\ \A c \in textCols : row[c] # Missing
    /\ \A c \in numberCols : row[c] # NaN

DropNa(table, textCols, numberCols) ==
    LET keep == {k \in 1..Len(table) : HasAll(table[k], textCols, numberCols)}
        order == SetToSortedSeq(keep)
    IN [k \in 1..Len(order) |-> table[order[k]]]

\* set(...dropna(subset=['編號'])['編號'].astype(str)) and the same for 備查編號
CommunityIds(community) == {community[k].id : k \in 1..Len(community)} \ {Missing}

TransactionIds(transactions) == {transactions[k].ref : k \in 1..Len(transactions)} \ {Missing}

MatchedIds(community, transactions) == CommunityIds(community) \cap TransactionIds(transactions)

\* check_data_matching prints the diagnostics of MatchedIds and falls off
\* its end: the value it returns to preprocess_data is None
check_data_matching(community, transactions) == None

\* preprocess_data: the value it returns for a given matched_count
\* (matched_count == 0 is the only path to None)
preprocess_data_return(matched) == IF matched = Some(0) THEN None ELSE Some("self")

\* self.current_date of an analyzer built as main builds it, with no
\* analysis_date
current_date == <<2025, 6, 30>>

\* number of the day of a date, counted from 1970-01-01 (what the
\* subtraction of two datetimes counts)
DayNumber(date) ==
    LET y == IF date[2] <= 2 THEN date[1] - 1 ELSE date[1]
        era == y \div 400
        yoe == y - era * 400
        mp == (date[2] + 9) % 12
        doy == (153 * mp + 2) \div 5 + date[3] - 1
        doe == yoe * 365 + yoe \div 4 - yoe \div 100 + doy
    IN era * 146097 + doe - 719468

\* round(a / b) for a >= 0 and b > 0, halves to the even neighbour
RoundDiv(a, b) ==
    LET q == a \div b
        r == a % b
    IN IF 2 * r > b THEN q + 1
       ELSE IF 2 * r < b THEN q
       ELSE IF q % 2 = 0 THEN q ELSE q + 1

\* a.fillna(b) on one row
FillNa(a, b) == IF a = None THEN b ELSE a

\* 銷售開始日期 of calculate_sales_period
SalesStartDate(row) ==
    FillNa(convert_taiwan_date(row.sales_start),
           FillNa(convert_taiwan_date(row.self_start), convert_taiwan_date(row.agent_start)))

SalesDaysSigned(start) ==
    IF start = None THEN 0
    ELSE DayNumber(current_date) - DayNumber(ValueOf(start))

\* 銷售天數 of calculate_sales_period: (current_date - 銷售開始日期).days,
\* then max(0, x) if notna else 0
SalesDays(start) ==
    IF start = None THEN 0
    ELSE LET x == DayNumber(current_date) - DayNumber(ValueOf(start))
         IN IF x > 0 THEN x ELSE 0

\* calculate_sales_period: the columns 銷售開始日期 and 銷售天數 added to
\* community_data
calculate_sales_period(community) ==
    [k \in 1..Len(community) |->
        LET c == community[k]
        IN [id |-> c.id, id_list |-> c.id_list, city |-> c.city, district |-> c.district,
            name |-> c.name, units |-> c.units, sales_start |-> c.sales_start,
            self_start |-> c.self_start, agent_start |-> c.agent_start,
            start |-> SalesStartDate(c), days |-> SalesDays(SalesStartDate(c))]]

\* the float inf of a division by zero; it is larger than every rate
Inf == 100000000

\* 去化率: 已售戶數 / 戶數 * 100 rounded to 2 decimals, in hundredths of a
\* percent; a division by 0 gives inf (NaN for 0 / 0) and raises nothing
AbsorptionRate(sold, units) ==
    IF units = 0 THEN (IF sold = 0 THEN NaN ELSE Inf)
    ELSE RoundDiv(sold * 10000, units)

\* 銷售月數 = max(0.5, 銷售天數 / 30.44), in 1/3044 of a month
SalesMonths(days) == IF days * 100 > 1522 THEN days * 100 ELSE 1522

\* 月均去化率 = 去化率 / 銷售月數 rounded to 2 decimals, in hundredths of a percent
MonthlyRate(rate, months) ==
    IF rate = NaN \/ rate = Inf THEN rate ELSE RoundDiv(rate * 3044, months)

\* variant: the communities are not filtered by the matched identifiers
MergedDataUnfiltered(community, transactions) ==
    LET filtered == {k \in 1..Len(community) : community[k].id # Missing}
        order == SetToSortedSeq(filtered)
    IN [k \in 1..Len(order) |->
          LET c == community[order[k]]
              sold == Cardinality({t \in 1..Len(transactions) : transactions[t].ref = c.id})
              rate == AbsorptionRate(sold, c.units)
              months == SalesMonths(c.days)
          IN [id |-> c.id, city |-> c.city, district |-> c.district, name |-> c.name,
              units |-> c.units, start |-> c.start, days |-> c.days, sold |-> sold,
              rate |-> rate, months |-> months, monthly |-> MonthlyRate(rate, months),
              label |-> categorize_performance([days |-> c.days, rate |-> rate])]]

\* the merged table of calculate_time_adjusted_absorption_rate: one row
\* per community whose identifier is matched, with the size of the
\* transaction group of that identifier
MergedData(community, transactions) ==
    LET matched_ids == MatchedIds(community, transactions)
        filtered == {k \in 1..Len(community) : community[k].id \in matched_ids}
        order == SetToSortedSeq(filtered)
    IN [k \in 1..Len(order) |->
          LET c == community[order[k]]
              sold == Cardinality({t \in 1..Len(transactions) : transactions[t].ref = c.id})
              rate == AbsorptionRate(sold, c.units)
              months == SalesMonths(c.days)
          IN [id |-> c.id, city |-> c.city, district |-> c.district, name |-> c.name,
              units |-> c.units, start |-> c.start, days |-> c.days, sold |-> sold,
              rate |-> rate, months |-> months, monthly |-> MonthlyRate(rate, months),
              label |-> categorize_performance([days |-> c.days, rate |-> rate])]]

\* the key of a row of analysis_result for groupby(cols)
GroupKey(row, cols) == [k \in 1..Len(cols) |-> row[cols[k]]]

\* groupby(cols).agg(sum, size): the groups of analysis_result with the
\* sums of 戶數 and 已售戶數 and the number of communities
RollupMeanOfRates(table, cols) ==
    { LET members == {k \in 1..Len(table) : GroupKey(table[k], cols) = g}
          units == SeqSum([k \in 1..Len(table) |-> IF k \in members THEN table[k].units ELSE 0])
          sold == SeqSum([k \in 1..Len(table) |-> IF k \in members THEN table[k].sold ELSE 0])
          rates == SeqSum([k \in 1..Len(table) |-> IF k \in members THEN table[k].rate ELSE 0])
      IN [key |-> g, units |-> units, sold |-> sold,
          mean_rate |-> [sum |-> rates, count |-> Cardinality(members)],
          overall |-> RoundDiv(rates, Cardinality(members)),
          communities |-> Cardinality(members)]
      : g \in {GroupKey(table[k], cols) : k \in 1..Len(table)} }

\* 去化率 'mean' is kept as the sum of the rates and their number; 整體去化率
\* = 已售戶數 / 戶數 * 100 of the sums, rounded to 2 decimals
Rollup(table, cols) ==
    { LET members == {k \in 1..Len(table) : GroupKey(table[k], cols) = g}
          units == SeqSum([k \in 1..Len(table) |-> IF k \in members THEN table[k].units ELSE 0])
          sold == SeqSum([k \in 1..Len(table) |-> IF k \in members THEN table[k].sold ELSE 0])
          rates == IF \E k \in members : table[k].rate = Inf THEN Inf
                   ELSE SeqSum([k \in 1..Len(table) |-> IF k \in members THEN table[k].rate ELSE 0])
      IN [key |-> g, units |-> units, sold |-> sold,
          mean_rate |-> [sum |-> rates, count |-> Cardinality(members)],
          overall |-> AbsorptionRate(sold, units),
          communities |-> Cardinality(members)]
      : g \in {GroupKey(table[k], cols) : k \in 1..Len(table)} }

\* 交易年季 is the text f"{era_year}Y{quarter}S"; a quarter of the model is
\* <<era_year, quarter>> and a missing 交易年季 is None
QuarterText(q) == Digits(q[1]) \o <<89, 48 + q[2], 83>>

\* a < b for two texts, as Python and pandas order strings
RECURSIVE TextLess(_, _)
TextLess(a, b) ==
    IF b = <<>> THEN FALSE
    ELSE IF a = <<>> THEN TRUE
    ELSE IF a[1] # b[1] THEN a[1] < b[1]
    ELSE TextLess(Tail(a), Tail(b))

\* the identifier texts of the model in ascending string order
IdTexts == <<"X", "X ", "Y", "Z">>

IdRank(id) == CHOOSE k \in 1..Len(IdTexts) : IdTexts[k] = id

\* order of the keys (備查編號, 交易年季) of groupby and sort_values
GroupLess(g, h) ==
    \/ IdRank(g[1]) < IdRank(h[1])
    \/ (g[1] = h[1] /\ TextLess(QuarterText(g[2]), QuarterText(h[2])))

RECURSIVE SortGroups(_)
SortGroups(G) ==
    IF G = {} THEN <<>>
    ELSE LET m == CHOOSE g \in G : \A h \in G \ {g} : GroupLess(g, h)
         IN <<m>> \o SortGroups(G \ {m})

\* groupby(['備查編號', '交易年季']).size() after dropna: the keys in order
QuarterlySales(transactions) ==
    SortGroups({<<transactions[t].ref, transactions[t].quarter>> :
                   t \in {u \in 1..Len(transactions) :
                             /\ transactions[u].ref # Missing
                             /\ transactions[u].quarter # None}})

\* pd.merge(quarterly_sales, community_with_id, how='inner'): for each key
\* in order, one row per community row with that 編號
RECURSIVE MergeQuarterly(_, _, _)
MergeQuarterly(groups, community, transactions) ==
    IF groups = <<>> THEN <<>>
    ELSE LET g == Head(groups)
             size == Cardinality({t \in 1..Len(transactions) :
                                     /\ transactions[t].ref = g[1]
                                     /\ transactions[t].quarter = g[2]})
             hits == SetToSortedSeq({k \in 1..Len(community) : community[k].id = g[1]})
         IN [k \in 1..Len(hits) |->
                [ref |-> g[1], quarter |-> g[2], count |-> size,
                 city |-> community[hits[k]].city, district |-> community[hits[k]].district,
                 name |-> community[hits[k]].name, units |-> community[hits[k]].units]]
            \o MergeQuarterly(Tail(groups), community, transactions)

\* sort_values(['備查編號', '交易年季']) leaves the merged rows in the order of
\* the keys; 累積銷售戶數 = groupby('備查編號')['季度銷售戶數'].cumsum() and
\* 累積去化率 = 累積銷售戶數 / 戶數 * 100 rounded to 2 decimals
analyze_quarterly_trends(community, transactions) ==
    LET merged == MergeQuarterly(QuarterlySales(transactions), community, transactions)
    IN [k \in 1..Len(merged) |->
          LET cum == SeqSum([j \in 1..k |->
                               IF merged[j].ref = merged[k].ref THEN merged[j].count ELSE 0])
          IN [ref |-> merged[k].ref, quarter |-> merged[k].quarter, count |-> merged[k].count,
              city |-> merged[k].city, district |-> merged[k].district,
              name |-> merged[k].name, units |-> merged[k].units,
              cum |-> cum, cum_rate |-> AbsorptionRate(cum, merged[k].units)]]

CommunityRows ==
    [id : {"X", "Y", Missing}, id_list : {Missing, <<"X">>, <<"X ", "Y">>},
     city : {"A"}, district : {"d1"}, name : {"n1", "n2"}, units : {10},
     sales_start : {NaN}, self_start : {NaN}, agent_start : {NaN}]

TransactionRows ==
    [ref : {"X", "X ", "Y", Missing}, city : {"A"}, district : {"d1"},
     name : {"n1", Missing}, quarter : {<<110, 1>>}]

RiskIdle ==
    /\ indicators = <<>>
    /\ use_relative = FALSE
    /\ result = <<>>
    /\ pc = "idle"

InitLink ==
    /\ \E n \in 1..MaxCommunities : community_data \in [1..n -> CommunityRows]
    /\ \E n \in 0..MaxTransactions : transaction_data \in [1..n -> TransactionRows]
    /\ lpc \in {"loaded", "helper"}
    /\ matched_count = None
    /\ preprocess_ret = None
    /\ analysis_result = None
    /\ city_analysis = None
    /\ district_analysis = None
    /\ transaction_counts = None
    /\ quarterly_analysis = None
    /\ city_detailed_analysis = None
    /\ RiskIdle
    /\ FnIdle

\* main: result = analyzer.preprocess_data(): parse_date_columns, the two
\* dropna, calculate_sales_period, check_data_matching
PreprocessData ==
    /\ lpc = "loaded"
    /\ LET tx == DropNa(transaction_data, {"name", "city", "district"}, {})
           cm == calculate_sales_period(DropNa(community_data, {"name"}, {"units"}))
           mc == check_data_matching(cm, tx)
       IN /\ transaction_data' = tx
          /\ community_data' = cm
          /\ matched_count' = mc
          /\ preprocess_ret' = preprocess_data_return(mc)
    /\ lpc' = "preprocessed"
    /\ UNCHANGED <<analysis_result, city_analysis, district_analysis, transaction_counts,
                   quarterly_analysis>>
    /\ UNCHANGED <<riskVars, fnVars, city_detailed_analysis>>

\* main: if result is None: return
MainCheckResult ==
    /\ lpc = "preprocessed"
    /\ lpc' = IF preprocess_ret = None THEN "stopped" ELSE "calculate"
    /\ UNCHANGED <<community_data, transaction_data, matched_count, preprocess_ret,
                   analysis_result, city_analysis, district_analysis, transaction_counts,
                   quarterly_analysis>>
    /\ UNCHANGED <<riskVars, fnVars, city_detailed_analysis>>

\* main: analyzer.calculate_time_adjusted_absorption_rate()
CalculateTimeAdjustedAbsorptionRate ==
    /\ lpc = "calculate"
    /\ analysis_result' =
          IF MatchedIds(community_data, transaction_data) = {}
          THEN analysis_result
          ELSE Some(MergedData(community_data, transaction_data))
    /\ lpc' = "city"
    /\ UNCHANGED <<community_data, transaction_data, matched_count, preprocess_ret,
                   city_analysis, district_analysis, transaction_counts,
                   quarterly_analysis>>
    /\ UNCHANGED <<riskVars, fnVars, city_detailed_analysis>>

\* main: analyzer.analyze_city_performance()
AnalyzeCityPerformance ==
    /\ lpc = "city"
    /\ city_analysis' =
          IF analysis_result = None THEN city_analysis
          ELSE Some(Rollup(ValueOf(analysis_result), <<"city">>))
    /\ lpc' = "district"
    /\ UNCHANGED <<community_data, transaction_data, matched_count, preprocess_ret,
                   analysis_result, district_analysis, transaction_counts,
                   quarterly_analysis>>
    /\ UNCHANGED <<riskVars, fnVars, city_detailed_analysis>>

\* main: analyzer.analyze_district_performance()
AnalyzeDistrictPerformance ==
    /\ lpc = "district"
    /\ district_analysis' =
          IF analysis_result = None THEN district_analysis
          ELSE Some(Rollup(ValueOf(analysis_result), <<"city", "district">>))
    /\ lpc' = "menu"
    /\ UNCHANGED <<community_data, transaction_data, matched_count, preprocess_ret,
                   analysis_result, city_analysis, transaction_counts,
                   quarterly_analysis>>
    /\ UNCHANGED <<riskVars, fnVars, city_detailed_analysis>>

\* a caller of the helper library: calculate_presale_transaction_counts(community_df, transaction_df)
CalculatePresaleTransactionCounts ==
    /\ lpc = "helper"
    /\ transaction_counts' = Some(calculate_presale_transaction_counts(community_data, transaction_data))
    /\ lpc' = "helper_done"
    /\ UNCHANGED <<community_data, transaction_data, matched_count, preprocess_ret,
                   analysis_result, city_analysis, district_analysis,
                   quarterly_analysis>>
    /\ UNCHANGED <<riskVars, fnVars, city_detailed_analysis>>

\* the menu of main: analyzer.analyze_quarterly_trends(), reached through
\* the city and quarterly reports
AnalyzeQuarterlyTrends ==
    /\ lpc = "menu"
    /\ quarterly_analysis' =
          IF analysis_result = None THEN quarterly_analysis
          ELSE Some(analyze_quarterly_trends(community_data, transaction_data))
    /\ lpc' = "trends"
    /\ UNCHANGED <<community_data, transaction_data, matched_count, preprocess_ret,
                   analysis_result, city_analysis, district_analysis, transaction_counts>>
    /\ UNCHANGED <<riskVars, fnVars, city_detailed_analysis>>

NextLink ==
    \/ PreprocessData
    \/ MainCheckResult
    \/ CalculateTimeAdjustedAbsorptionRate
    \/ AnalyzeCityPerformance
    \/ AnalyzeDistrictPerformance
    \/ CalculatePresaleTransactionCounts

SpecLink == InitLink /\ [][NextLink]_vars

----------------------------------------------------------------------------
(* The main flow of test.py on projects with start dates, several sizes    *)
(* and districts, and transactions of several quarters                     *)

\* current_date is 2025-06-30, era date 1140630: starts 365 days before,
\* after it, 10 days before (self-sale only), 90 days before, none, and on
\* the day itself
MainCommunities ==
    { [id |-> "X", id_list |-> Missing, city |-> "A", district |-> "d1", name |-> "n1",
       units |-> 2, sales_start |-> 1130630, self_start |-> NaN, agent_start |-> NaN],
      [id |-> "Y", id_list |-> Missing, city |-> "A", district |-> "d1", name |-> "n2",
       units |-> 10, sales_start |-> 1140801, self_start |-> 1140101, agent_start |-> NaN],
      [id |-> "Y", id_list |-> Missing, city |-> "A", district |-> "d2", name |-> "n1",
       units |-> 10, sales_start |-> NaN, self_start |-> 1140620, agent_start |-> 1140101],
      [id |-> "X", id_list |-> Missing, city |-> "A", district |-> "d1", name |-> "n2",
       units |-> 10, sales_start |-> 1140401, self_start |-> NaN, agent_start |-> NaN],
      [id |-> "Z", id_list |-> Missing, city |-> "B", district |-> "d1", name |-> "n1",
       units |-> 3, sales_start |-> NaN, self_start |-> NaN, agent_start |-> NaN],
      [id |-> "Y", id_list |-> Missing, city |-> "B", district |-> "d1", name |-> "n2",
       units |-> 3, sales_start |-> 1140630, self_start |-> NaN, agent_start |-> NaN] }

MainTransactions ==
    { [ref |-> "X", city |-> "A", district |-> "d1", name |-> "n1", quarter |-> <<113, 3>>],
      [ref |-> "X", city |-> "A", district |-> "d1", name |-> "n1", quarter |-> <<113, 4>>],
      [ref |-> "X", city |-> "A", district |-> "d1", name |-> "n1", quarter |-> <<99, 4>>],
      [ref |-> "Y", city |-> "A", district |-> "d1", name |-> "n2", quarter |-> <<114, 1>>],
      [ref |-> "Y", city |-> "A", district |-> "d1", name |-> "n2", quarter |-> None] }

InitMain ==
    /\ \E n \in 1..MaxCommunities : community_data \in [1..n -> MainCommunities]
    /\ \E n \in 0..MaxTransactions : transaction_data \in [1..n -> MainTransactions]
    /\ lpc = "loaded"
    /\ matched_count = None
    /\ preprocess_ret = None
    /\ analysis_result = None
    /\ city_analysis = None
    /\ district_analysis = None
    /\ transaction_counts = None
    /\ quarterly_analysis = None
    /\ city_detailed_analysis = None
    /\ RiskIdle
    /\ FnIdle

NextMain ==
    \/ PreprocessData
    \/ MainCheckResult
    \/ CalculateTimeAdjustedAbsorptionRate
    \/ AnalyzeCityPerformance
    \/ AnalyzeDistrictPerformance
    \/ AnalyzeQuarterlyTrends

SpecMain == InitMain /\ [][NextMain]_vars

----------------------------------------------------------------------------
(* A session on a PresaleMarketAnalysis object whose data are loaded and   *)
(* preprocessed: the public methods are called in any order.  An attribute *)
(* that was never assigned is None.                                        *)

SessionCommunities ==
    { [id |-> "X", id_list |-> Missing, city |-> "A", district |-> "d1", name |-> "n1",
       units |-> 2, sales_start |-> 1130630, self_start |-> NaN, agent_start |-> NaN],
      [id |-> "Y", id_list |-> Missing, city |-> "A", district |-> "d2", name |-> "n2",
       units |-> 10, sales_start |-> 1140401, self_start |-> NaN, agent_start |-> NaN],
      [id |-> "Z", id_list |-> Missing, city |-> "B", district |-> "d1", name |-> "n1",
       units |-> 3, sales_start |-> 1140630, self_start |-> NaN, agent_start |-> NaN] }

SessionTransactions ==
    { [ref |-> "X", city |-> "A", district |-> "d1", name |-> "n1", quarter |-> <<113, 3>>],
      [ref |-> "Y", city |-> "A", district |-> "d2", name |-> "n2", quarter |-> <<114, 1>>] }

\* the city_name arguments of a session; "C" is in no table
CityNames == {"A", "B", "C"}

\* table[table['縣市'] == city]
CityTable(table, city) ==
    LET idx == SetToSortedSeq({k \in 1..Len(table) : table[k].city = city})
    IN [j \in 1..Len(idx) |-> table[idx[j]]]

\* city_quarterly.groupby(['交易年季', '行政區'])['累積去化率'].mean(): the mean
\* is kept as the sum and the number of its rows
QuarterlyDistrict(city_quarterly) ==
    { LET members == {k \in 1..Len(city_quarterly) :
                         <<city_quarterly[k].quarter, city_quarterly[k].district>> = g}
      IN [quarter |-> g[1], district |-> g[2],
          mean_cum_rate |-> [sum |-> SeqSum([k \in 1..Len(city_quarterly) |->
                                               IF k \in members THEN city_quarterly[k].cum_rate
                                               ELSE 0]),
                             count |-> Cardinality(members)]]
      : g \in {<<city_quarterly[k].quarter, city_quarterly[k].district>> :
                  k \in 1..Len(city_quarterly)} }

\* the entry of city_detailed_analysis of one city: its basic_stats, its
\* district_analysis and the means its quarterly_district_ranking ranks
CityDetail(table, quarterly, city) ==
    LET city_data == CityTable(table, city)
        city_quarterly == IF quarterly = None THEN <<>>
                          ELSE CityTable(ValueOf(quarterly), city)
    IN [city |-> city,
        total_communities |-> Len(city_data),
        total_units |-> SeqSum([k \in 1..Len(city_data) |-> city_data[k].units]),
        sold_units |-> SeqSum([k \in 1..Len(city_data) |-> city_data[k].sold]),
        districts_count |-> Cardinality({city_data[k].district : k \in 1..Len(city_data)}),
        district_analysis |-> Rollup(city_data, <<"district">>),
        quarterly_district_ranking |->
            IF city_quarterly = <<>> THEN None
            ELSE Some(QuarterlyDistrict(city_quarterly))]

\* analysis_result['縣市'].unique()
AvailableCities(table) == {table[k].city : k \in 1..Len(table)}

\* analyze_city_detailed(city_name) on an existing analysis_result; cities
\* is the list cities_to_analyze
analyze_city_detailed(table, quarterly, cities) ==
    {CityDetail(table, quarterly, city) : city \in cities}

\* the value of quarterly_analysis after `if not hasattr(self,
\* 'quarterly_analysis'): self.analyze_quarterly_trends()`
EnsureQuarterly ==
    IF quarterly_analysis = None
    THEN Some(analyze_quarterly_trends(community_data, transaction_data))
    ELSE quarterly_analysis

InitSession ==
    /\ \E n \in 1..MaxCommunities : \E raw \in [1..n -> SessionCommunities] :
          community_data = calculate_sales_period(DropNa(raw, {"name"}, {"units"}))
    /\ \E n \in 0..MaxTransactions : transaction_data \in [1..n -> SessionTransactions]
    /\ lpc = "session"
    /\ matched_count = None
    /\ preprocess_ret = Some("self")
    /\ analysis_result = None
    /\ city_analysis = None
    /\ district_analysis = None
    /\ transaction_counts = None
    /\ quarterly_analysis = None
    /\ city_detailed_analysis = None
    /\ RiskIdle
    /\ FnIdle

\* what every call of a session leaves alone
SessionFrame ==
    /\ lpc = "session"
    /\ UNCHANGED <<community_data, transaction_data, lpc, matched_count, preprocess_ret,
                   transaction_counts>>
    /\ UNCHANGED riskVars

\* the call of `name` with argument list `arg` ended as `outcome`:
\* "returned", or the name of the exception it raised
Ended(name, arg, outcome) ==
    /\ fn_name' = name
    /\ fn_arg' = arg
    /\ fn_out' = Some(outcome)

\* variant: a run on an object that already has a result keeps the first
\* row of that result
CallCalculateKeepsFirstRow ==
    /\ SessionFrame
    /\ analysis_result' =
          IF MatchedIds(community_data, transaction_data) = {}
          THEN analysis_result
          ELSE IF analysis_result # None
          THEN Some(SubSeq(ValueOf(analysis_result), 1, 1))
          ELSE Some(MergedData(community_data, transaction_data))
    /\ UNCHANGED <<city_analysis, district_analysis, quarterly_analysis,
                   city_detailed_analysis>>
    /\ Ended("calculate_time_adjusted_absorption_rate", <<>>, "returned")

CallCalculateTimeAdjustedAbsorptionRate ==
    /\ SessionFrame
    /\ analysis_result' =
          IF MatchedIds(community_data, transaction_data) = {}
          THEN analysis_result
          ELSE Some(MergedData(community_data, transaction_data))
    /\ UNCHANGED <<city_analysis, district_analysis, quarterly_analysis,
                   city_detailed_analysis>>
    /\ Ended("calculate_time_adjusted_absorption_rate", <<>>, "returned")

CallAnalyzeCityPerformance ==
    /\ SessionFrame
    /\ city_analysis' =
          IF analysis_result = None THEN city_analysis
          ELSE Some(Rollup(ValueOf(analysis_result), <<"city">>))
    /\ UNCHANGED <<analysis_result, district_analysis, quarterly_analysis,
                   city_detailed_analysis>>
    /\ Ended("analyze_city_performance", <<>>, "returned")

CallAnalyzeDistrictPerformance ==
    /\ SessionFrame
    /\ district_analysis' =
          IF analysis_result = None THEN district_analysis
          ELSE Some(Rollup(ValueOf(analysis_result), <<"city", "district">>))
    /\ UNCHANGED <<analysis_result, city_analysis, quarterly_analysis,
                   city_detailed_analysis>>
    /\ Ended("analyze_district_performance", <<>>, "returned")

CallAnalyzeQuarterlyTrends ==
    /\ SessionFrame
    /\ quarterly_analysis' =
          IF analysis_result = None THEN quarterly_analysis
          ELSE Some(analyze_quarterly_trends(community_data, transaction_data))
    /\ UNCHANGED <<analysis_result, city_analysis, district_analysis,
                   city_detailed_analysis>>
    /\ Ended("analyze_quarterly_trends", <<>>, "returned")

\* analyze_city_detailed() for all cities
CallAnalyzeCityDetailed ==
    /\ SessionFrame
    /\ IF analysis_result = None
       THEN UNCHANGED <<quarterly_analysis, city_detailed_analysis>>
       ELSE /\ quarterly_analysis' = EnsureQuarterly
            /\ city_detailed_analysis' =
                  Some(analyze_city_detailed(ValueOf(analysis_result), EnsureQuarterly,
                                             AvailableCities(ValueOf(analysis_result))))
    /\ UNCHANGED <<analysis_result, city_analysis, district_analysis>>
    /\ Ended("analyze_city_detailed", <<>>, "returned")

\* analyze_single_city(city_name); the report only prints and a failure of
\* the charts is caught inside the method
CallAnalyzeSingleCity ==
    /\ SessionFrame
    /\ \E city_name \in CityNames :
          /\ IF analysis_result = None
             THEN UNCHANGED <<quarterly_analysis, city_detailed_analysis>>
             ELSE IF city_name \notin AvailableCities(ValueOf(analysis_result))
             THEN UNCHANGED <<quarterly_analysis, city_detailed_analysis>>
             ELSE /\ quarterly_analysis' = EnsureQuarterly
                  /\ city_detailed_analysis' =
                        Some(analyze_city_detailed(ValueOf(analysis_result), EnsureQuarterly,
                                                   {city_name}))
          /\ Ended("analyze_single_city", <<city_name>>, "returned")
    /\ UNCHANGED <<analysis_result, city_analysis, district_analysis>>

CallGenerateTimeAwareReport ==
    /\ SessionFrame
    /\ UNCHANGED <<analysis_result, city_analysis, district_analysis, quarterly_analysis,
                   city_detailed_analysis>>
    /\ Ended("generate_time_aware_report", <<>>, "returned")

\* analyze_market_efficiency subscripts self.analysis_result without a
\* guard: None['月均去化率'] raises TypeError
CallAnalyzeMarketEfficiency ==
    /\ SessionFrame
    /\ UNCHANGED <<analysis_result, city_analysis, district_analysis, quarterly_analysis,
                   city_detailed_analysis>>
    /\ Ended("analyze_market_efficiency", <<>>,
             IF analysis_result = None THEN "TypeError" ELSE "returned")

CallExportTimeAwareResults ==
    /\ SessionFrame
    /\ UNCHANGED <<analysis_result, city_analysis, district_analysis, quarterly_analysis,
                   city_detailed_analysis>>
    /\ Ended("export_time_aware_results", <<>>, "returned")

\* show_all_cities_overview and show_city_ranking_comparison: the rollup is
\* computed only if city_analysis was never assigned, and then read; it is
\* still unassigned when analyze_city_performance had no analysis_result
EnsureCityAnalysis ==
    IF city_analysis = None /\ analysis_result # None
    THEN Some(Rollup(ValueOf(analysis_result), <<"city">>))
    ELSE city_analysis

CallShowAllCitiesOverview ==
    /\ SessionFrame
    /\ city_analysis' = EnsureCityAnalysis
    /\ UNCHANGED <<analysis_result, district_analysis, quarterly_analysis,
                   city_detailed_analysis>>
    /\ Ended("show_all_cities_overview", <<>>,
             IF EnsureCityAnalysis = None THEN "AttributeError" ELSE "returned")

CallShowCityRankingComparison ==
    /\ SessionFrame
    /\ city_analysis' = EnsureCityAnalysis
    /\ UNCHANGED <<analysis_result, district_analysis, quarterly_analysis,
                   city_detailed_analysis>>
    /\ Ended("show_city_ranking_comparison", <<>>,
             IF EnsureCityAnalysis = None THEN "AttributeError" ELSE "returned")

NextSession ==
    \/ CallCalculateTimeAdjustedAbsorptionRate
    \/ CallAnalyzeCityPerformance
    \/ CallAnalyzeDistrictPerformance
    \/ CallAnalyzeQuarterlyTrends
    \/ CallAnalyzeCityDetailed
    \/ CallAnalyzeSingleCity
    \/ CallGenerateTimeAwareReport
    \/ CallAnalyzeMarketEfficiency
    \/ CallExportTimeAwareResults
    \/ CallShowAllCitiesOverview
    \/ CallShowCityRankingComparison

SpecSession == InitSession /\ [][NextSession]_vars

----------------------------------------------------------------------------
(* The flow of main over community tables that contain a project whose    *)
(* 戶數 is 0                                                               *)

ZeroUnitCommunities ==
    { [id |-> "X", id_list |-> Missing, city |-> "A", district |-> "d1", name |-> "n1",
       units |-> 0, sales_start |-> 1130630, self_start |-> NaN, agent_start |-> NaN],
      [id |-> "Y", id_list |-> Missing, city |-> "A", district |-> "d1", name |-> "n2",
       units |-> 10, sales_start |-> 1140401, self_start |-> NaN, agent_start |-> NaN],
      [id |-> "Y", id_list |-> Missing, city |-> "A", district |-> "d2", name |-> "n1",
       units |-> 10, sales_start |-> 1140401, self_start |-> NaN, agent_start |-> NaN],
      [id |-> "X", id_list |-> Missing, city |-> "B", district |-> "d1", name |-> "n2",
       units |-> 0, sales_start |-> 1140401, self_start |-> NaN, agent_start |-> NaN] }

InitZeroUnits ==
    /\ \E n \in 1..MaxCommunities : community_data \in [1..n -> ZeroUnitCommunities]
    /\ \E n \in 0..MaxTransactions : transaction_data \in [1..n -> MainTransactions]
    /\ lpc = "loaded"
    /\ matched_count = None
    /\ preprocess_ret = None
    /\ analysis_result = None
    /\ city_analysis = None
    /\ district_analysis = None
    /\ transaction_counts = None
    /\ quarterly_analysis = None
    /\ city_detailed_analysis = None
    /\ RiskIdle
    /\ FnIdle

SpecZeroUnits == InitZeroUnits /\ [][NextMain]_vars

----------------------------------------------------------------------------
(* The helper library alone: calculate_presale_transaction_counts on        *)
(* tables whose identifier lists and names vary                             *)

HelperCommunityRows ==
    [id : {Missing}, id_list : {Missing, <<"X">>, <<"X ", "Y">>, <<"X", "X">>},
     city : {"A"}, district : {"d1"}, name : {"n1", Missing}, units : {10}]

HelperTransactionRows ==
    [ref : {"X", "X ", "Y", Missing}, city : {"A"}, district : {"d1"},
     name : {"n1", Missing}, quarter : {<<110, 1>>}]

InitHelper ==
    /\ \E n \in 1..MaxCommunities : community_data \in [1..n -> HelperCommunityRows]
    /\ \E n \in 0..MaxTransactions : transaction_data \in [1..n -> HelperTransactionRows]
    /\ lpc = "helper"
    /\ matched_count = None
    /\ preprocess_ret = None
    /\ analysis_result = None
    /\ city_analysis = None
    /\ district_analysis = None
    /\ transaction_counts = None
    /\ quarterly_analysis = None
    /\ city_detailed_analysis = None
    /\ RiskIdle
    /\ FnIdle

NextHelper == CalculatePresaleTransactionCounts

SpecHelper == InitHelper /\ [][NextHelper]_vars

----------------------------------------------------------------------------
(* The date normalizers applied to drawn inputs *)

\* era years of the inputs: one-, two- and three-digit ones
EraYears == {1, 9, 10, 99, 100, 112, 113, 200}

EncodedDates ==
    {y * 10000 + m * 100 + d : y \in EraYears, m \in {1, 2, 12, 13}, d \in {1, 28, 29, 30, 31, 32}}

\* zero, a missing value, negative numbers of 4 to 7 digits, and positive
\* numbers with too few or too many digits
OddDates == {0, NaN, 0 - 1101, 0 - 10101, 0 - 110101, 0 - 1100101, 1101, 11001011}

DateInputs == EncodedDates \cup OddDates

InitDate ==
    /\ fn_name \in {"convert_taiwan_date", "_convert_roc_date", "parse_mixed_date_to_datetime"}
    /\ fn_arg \in DateInputs
    /\ fn_out = None
    /\ RiskIdle
    /\ LinkIdle

ConvertTaiwanDate ==
    /\ fn_name = "convert_taiwan_date"
    /\ fn_out = None
    /\ fn_out' = Some(convert_taiwan_date(fn_arg))
    /\ UNCHANGED <<fn_name, fn_arg, riskVars, linkVars>>

ConvertRocDate ==
    /\ fn_name = "_convert_roc_date"
    /\ fn_out = None
    /\ fn_out' = Some(convert_roc_date(fn_arg))
    /\ UNCHANGED <<fn_name, fn_arg, riskVars, linkVars>>

ParseMixedDateToDatetime ==
    /\ fn_name = "parse_mixed_date_to_datetime"
    /\ fn_out = None
    /\ \E ret \in parse_mixed_date_to_datetime(fn_arg) : fn_out' = Some(ret)
    /\ UNCHANGED <<fn_name, fn_arg, riskVars, linkVars>>

NextDate == ConvertTaiwanDate \/ ConvertRocDate \/ ParseMixedDateToDatetime

SpecDate == InitDate /\ [][NextDate]_vars

----------------------------------------------------------------------------
(* categorize_performance applied to drawn inputs *)

\* 銷售天數 and 去化率 on both sides of every threshold of the table
LabelInputs ==
    [days : {0, 89, 90, 91, 364, 365, 366},
     rate : {0, 1000, 1001, 2000, 2001, 3000, 3001, 4000, 4001, 5000, 5001,
             7000, 7001, 8000, 8001, 12000}]

InitLabel ==
    /\ fn_name = "categorize_performance"
    /\ fn_arg \in LabelInputs
    /\ fn_out = None
    /\ RiskIdle
    /\ LinkIdle

CategorizePerformance ==
    /\ fn_name = "categorize_performance"
    /\ fn_out = None
    /\ fn_out' = Some(categorize_performance(fn_arg))
    /\ UNCHANGED <<fn_name, fn_arg, riskVars, linkVars>>

NextLabel == CategorizePerformance

SpecLabel == InitLabel /\ [][NextLabel]_vars

----------------------------------------------------------------------------
(* sales_start_time of utils/helper_func.py and the start date of          *)
(* calculate_sales_period.  The four columns read by sales_start_time are  *)
(* texts (sequences of character codes); a missing one is NaText.          *)

NaText == <<0>>

\* text.strip() for blanks (code 32)
RECURSIVE TextStrip(_)
TextStrip(t) ==
    IF t = <<>> THEN t
    ELSE IF Head(t) = 32 THEN TextStrip(Tail(t))
    ELSE IF t[Len(t)] = 32 THEN TextStrip(SubSeq(t, 1, Len(t) - 1))
    ELSE t

sales_start_timeSelfFirst(row) ==
    IF row.self_time # NaText THEN TextStrip(row.self_time)
    ELSE IF row.agent_time # NaText THEN TextStrip(row.agent_time)
    ELSE IF row.check_date # NaText THEN TextStrip(row.check_date)
    ELSE IF row.permit_date # NaText THEN TextStrip(row.permit_date)
    ELSE <<>>

sales_start_time(row) ==
    IF row.self_time = NaText /\ row.agent_time # NaText THEN TextStrip(row.agent_time)
    ELSE IF row.agent_time = NaText /\ row.self_time # NaText THEN TextStrip(row.self_time)
    ELSE IF row.self_time # NaText /\ row.agent_time # NaText
    THEN LET self_val == PyInt(TextStrip(row.self_time))
             agent_val == PyInt(TextStrip(row.agent_time))
         IN IF self_val = None \/ agent_val = None THEN <<>>
            ELSE PyStr(IF ValueOf(self_val) < ValueOf(agent_val)
                       THEN ValueOf(self_val) ELSE ValueOf(agent_val))
    ELSE IF row.check_date # NaText THEN TextStrip(row.check_date)
    ELSE IF row.permit_date # NaText THEN TextStrip(row.permit_date)
    ELSE <<>>

\* a missing text, two dates, a date with a leading blank, a text that is
\* not a number ('tbd')
StartTexts ==
    {NaText, Digits(1100101), Digits(1110701), <<32>> \o Digits(1090505), <<116, 98, 100>>}

StartRows ==
    [self_time : StartTexts, agent_time : StartTexts,
     check_date : {NaText, Digits(1080808)}, permit_date : {NaText, Digits(1070707)}]

\* the three date columns read by calculate_sales_period, as numbers
PeriodRows ==
    [sales_start : {NaN, 1120101}, self_start : {NaN, 1100101, 1110701},
     agent_start : {NaN, 1100101, 1110701}]

InitStart ==
    /\ \/ fn_name = "sales_start_time" /\ fn_arg \in StartRows
       \/ fn_name = "calculate_sales_period" /\ fn_arg \in PeriodRows
    /\ fn_out = None
    /\ RiskIdle
    /\ LinkIdle

SalesStartTime ==
    /\ fn_name = "sales_start_time"
    /\ fn_out = None
    /\ fn_out' = Some(sales_start_time(fn_arg))
    /\ UNCHANGED <<fn_name, fn_arg, riskVars, linkVars>>

CalculateSalesPeriod ==
    /\ fn_name = "calculate_sales_period"
    /\ fn_out = None
    /\ fn_out' = Some(SalesStartDate(fn_arg))
    /\ UNCHANGED <<fn_name, fn_arg, riskVars, linkVars>>

NextStart == SalesStartTime \/ CalculateSalesPeriod

SpecStart == InitStart /\ [][NextStart]_vars

----------------------------------------------------------------------------
(* WorkingPreSaleRiskAnalyzer._process_sales_time_data (test_2.py) run      *)
(* several times on one row of sale_data.  The analyzer takes no analysis   *)
(* date; each run reads the clock.  A reading is <<date, hour>>.            *)

\* _calculate_sales_days: 0 without a start date, else the whole days from
\* the start date (midnight) to the end date or, without one, to the clock
calculate_sales_days(start_date, end_date, now) ==
    IF start_date = None THEN 0
    ELSE IF end_date = None
         THEN DayNumber(now[1]) - DayNumber(ValueOf(start_date))
         ELSE DayNumber(ValueOf(end_date)) - DayNumber(ValueOf(start_date))

\* _classify_sales_stage of 銷售月數 = 銷售天數 / 30.44 (months held in 1/3044)
classify_sales_stage(months) ==
    IF months <= 0 THEN "unknown"
    ELSE IF months < 6 * 3044 THEN "new"
    ELSE IF months < 24 * 3044 THEN "active"
    ELSE IF months < 48 * 3044 THEN "tail"
    ELSE "long"

\* the columns _process_sales_time_data derives from one row, given what
\* datetime.now() returned
process_sales_time_data(row, now) ==
    LET start_date == convert_roc_date(row.sales_start)
        days == calculate_sales_days(start_date, row.end_date, now)
    IN [start_date |-> start_date, days |-> days, months |-> days * 100,
        stage |-> classify_sales_stage(days * 100)]

\* rows of sale_data: 銷售起始時間 and the end date parsed from 銷售期間
SaleRows ==
    [sales_start : {NaN, 1130630, 1140101, 1140701},
     end_date : {None, Some(<<2025, 3, 31>>)}]

\* what the clock can show when a run executes
ClockReadings == {<<2025, 6, 30>>, <<2025, 7, 1>>} \X {0, 23}

InitClock ==
    /\ fn_name = "_process_sales_time_data"
    /\ fn_arg \in SaleRows
    /\ fn_out = <<>>
    /\ RiskIdle
    /\ LinkIdle

\* one run: current_date = datetime.now(); the local current_date and the
\* derived columns are kept, run after run, in fn_out
ProcessSalesTimeData ==
    /\ fn_name = "_process_sales_time_data"
    /\ Len(fn_out) < MaxRuns
    /\ \E now \in ClockReadings :
          fn_out' = Append(fn_out, [current_date |-> now,
                                    columns |-> process_sales_time_data(fn_arg, now)])
    /\ UNCHANGED <<fn_name, fn_arg, riskVars, linkVars>>

NextClock == ProcessSalesTimeData

SpecClock == InitClock /\ [][NextClock]_vars

----------------------------------------------------------------------------
(* Properties of the risk classifier *)

Done == pc = "done"

RelativeDone == pc = "done" /\ use_relative

\* number of rows of the city of row i
CityRowCount(i) == Cardinality(CityRows(result, CityOf(result[i].region)))

\* number of distinct regions (地區) of the city of row i
CityRegionCount(i) ==
    Cardinality({result[j].region : j \in CityRows(result, CityOf(result[i].region))})

\* row i is below an absolute floor of Phase B
BreachesFloor(i) ==
    \/ result[i].trans = 0
    \/ (result[i].rate # NaN /\ result[i].rate < 5)
    \/ (result[i].months # NaN /\ result[i].months > 60)

\* C1 as stated: after classify_risk_with_relative_option(use_relative=True)
\* every row with 0 transactions, or time-adjusted rate < 0.005, or average
\* sales months > 60 has relative level high risk, whatever the number of
\* rows of its city
C1_FloorWinsInEveryCity ==
    RelativeDone =>
        \A i \in 1..Len(result) : BreachesFloor(i) => result[i].rel_level = HighRisk

\* C1 amended: the floor wins over the percentile in every city that is
\* scored relatively (at least 3 rows)
C1_FloorWinsInScoredCity ==
    RelativeDone =>
        \A i \in 1..Len(result) :
            (CityRowCount(i) >= 3 /\ BreachesFloor(i)) => result[i].rel_level = HighRisk

\* a row with 0 transactions whose percentile is in the low-risk band (> 50)
\* of a scored city, classified high risk
C1_Witness ==
    /\ RelativeDone
    /\ \E i \in 1..Len(result) :
          /\ CityRowCount(i) >= 3
          /\ result[i].trans = 0
          /\ result[i].city_pct.num > 50 * result[i].city_pct.den
          /\ result[i].rel_level = HighRisk

\* C2: in a city with at least 3 rows, a row with a strictly better
\* (numerically smaller) composite rank has a strictly higher percentile
C2_HigherPercentileIsBetter ==
    RelativeDone =>
        \A i, j \in 1..Len(result) :
            (/\ CityOf(result[i].region) = CityOf(result[j].region)
             /\ CityRowCount(i) >= 3
             /\ CompositeLess(result[i].city_rank, result[j].city_rank))
            => PctLess(result[j].city_pct, result[i].city_pct)

\* C3: a city with fewer than 3 regions gets no relative scoring: every row
\* has relative level = absolute level and the fallback rationale
C3_SmallCityFallback ==
    RelativeDone =>
        \A i \in 1..Len(result) :
            CityRegionCount(i) < 3 =>
                /\ result[i].rel_level = result[i].abs_level
                /\ result[i].rel_reason.kind = "too_few_districts_absolute_used"

\* competition rank of row i inside its city for one metric: 1 + the number
\* of rows of the city with a strictly larger value
CompetitionRank(i, metric) ==
    1 + Cardinality({j \in CityRows(result, CityOf(result[i].region)) :
                        result[j][metric] > result[i][metric]})

\* C4: in a city with at least 3 rows the composite rank of a row is
\* 0.4 rank(rate) + 0.3 rank(monthly) + 0.3 rank(transactions), ranks being
\* descending competition ranks inside the city
C4_CompositeRankFormula ==
    RelativeDone =>
        \A i \in 1..Len(result) :
            CityRowCount(i) >= 3 =>
                result[i].city_rank.tenths =
                    4 * CompetitionRank(i, "rate") + 3 * CompetitionRank(i, "monthly")
                    + 3 * CompetitionRank(i, "trans")

\* a scored city where two rows tie on the transaction count above a third
\* row: the tied rows share rank 1 and the third has rank 3
C4_Witness ==
    /\ RelativeDone
    /\ \E i, j, k \in 1..Len(result) :
          /\ i # j
          /\ CityOf(result[i].region) = CityOf(result[j].region)
          /\ CityOf(result[i].region) = CityOf(result[k].region)
          /\ result[i].trans = result[j].trans
          /\ result[i].trans > result[k].trans
          /\ CompetitionRank(i, "trans") = 1
          /\ CompetitionRank(k, "trans") = 3

\* C5: for a row of a scored city that breaches no floor the level follows
\* from the percentile alone (<= 25 high, <= 50 medium, else low) and the
\* rationale names the composite rank (printed with no decimals)
C5_LevelByPercentile ==
    RelativeDone =>
        \A i \in 1..Len(result) :
            (CityRowCount(i) >= 3 /\ ~BreachesFloor(i)) =>
                LET p == result[i].city_pct
                IN /\ (p.num <= 25 * p.den) => result[i].rel_level = HighRisk
                   /\ (p.num > 25 * p.den /\ p.num <= 50 * p.den)
                         => result[i].rel_level = MediumRisk
                   /\ (p.num > 50 * p.den) => result[i].rel_level = LowRisk
                   /\ result[i].rel_reason.kind \in {"city_bottom", "city_middle", "city_top"}
                   /\ 10 * result[i].rel_reason.place - result[i].city_rank.tenths \in -5..5

\* a scored city with a high, a medium and a low row decided by percentile,
\* the high one exactly at the 25th percentile
C5_Witness ==
    /\ RelativeDone
    /\ \E i, j, k \in 1..Len(result) :
          /\ ~BreachesFloor(i) /\ ~BreachesFloor(j) /\ ~BreachesFloor(k)
          /\ CityRowCount(i) >= 3 /\ CityRowCount(j) >= 3 /\ CityRowCount(k) >= 3
          /\ result[i].city_pct.num = 25 * result[i].city_pct.den
          /\ result[i].rel_level = HighRisk
          /\ result[j].rel_level = MediumRisk
          /\ result[k].rel_level = LowRisk

\* the score the rules of Phase A give to a row
ExpectedScore(r) ==
    (IF r.rate < 250 THEN 3 ELSE IF r.rate > 650 THEN 1 ELSE 0)
    + (IF r.monthly < 50 THEN 2 ELSE 0)
    + (IF r.trans = 0 THEN 4 ELSE IF r.trans < 5 THEN 2 ELSE 0)
    + (IF r.months # NaN /\ r.months > 36 THEN 1 ELSE 0)

\* the names of the rules of Phase A that fire for a row
ExpectedFactors(r) ==
    (IF r.rate < 250 THEN {"time_adj_rate_low"} ELSE IF r.rate > 650 THEN {"possible_oversell"} ELSE {})
    \cup (IF r.monthly < 50 THEN {"sales_efficiency_low"} ELSE {})
    \cup (IF r.trans = 0 THEN {"no_transactions"} ELSE IF r.trans < 5 THEN {"volume_very_low"} ELSE {})
    \cup (IF r.months # NaN /\ r.months > 36 THEN {"sales_period_long"} ELSE {})

\* C6: Phase A gives every row the sum of the weights of the rules that fire,
\* the level high for score >= 5, medium for 2.5 <= score < 5, low otherwise,
\* and as rationale exactly the rules that fired
C6_AbsoluteScore ==
    (pc # "absolute") =>
        \A i \in 1..Len(result) :
            LET r == result[i]
                f == r.risk_factors
            IN /\ r.risk_score = ExpectedScore(r)
               /\ r.abs_level = (IF r.risk_score >= 5 THEN HighRisk
                                 ELSE IF r.risk_score >= 3 THEN MediumRisk ELSE LowRisk)
               /\ IF ExpectedFactors(r) = {}
                  THEN f = <<"no_obvious_risk">>
                  ELSE /\ {f[k] : k \in 1..Len(f)} = ExpectedFactors(r)
                       /\ Len(f) = Cardinality(ExpectedFactors(r))

\* a row scoring exactly 5 (high) from two rules, and one scoring exactly 3
\* (medium), on the values next to the thresholds
C6_Witness ==
    /\ pc # "absolute"
    /\ \E i \in 1..Len(result) :
          /\ result[i].risk_score = 5
          /\ result[i].rate = 249
          /\ result[i].monthly = 49
          /\ result[i].abs_level = HighRisk
          /\ result[i].risk_factors = <<"time_adj_rate_low", "sales_efficiency_low">>

\* C7: after the call every row of the input is classified, the final level
\* is one of high/medium/low, it is the relative level when use_relative and
\* the absolute level otherwise; Phase B starts from Phase A's output
C7_FinalLevel ==
    /\ Done =>
        /\ Len(result) = Len(indicators)
        /\ \A i \in 1..Len(result) :
              /\ result[i].risk_level \in RiskLevels
              /\ result[i].abs_level \in RiskLevels
              /\ result[i].risk_level =
                    (IF use_relative THEN result[i].rel_level ELSE result[i].abs_level)
    /\ (pc = "relative") =>
        /\ Len(result) = Len(indicators)
        /\ \A i \in 1..Len(result) : result[i].abs_level \in RiskLevels

\* a finished relative run where the final level of a row is its relative
\* level and differs from its absolute level
C7_Witness ==
    /\ RelativeDone
    /\ \E i \in 1..Len(result) :
          /\ result[i].risk_level # result[i].abs_level
          /\ result[i].risk_level = result[i].rel_level

\* C8: Phase B leaves absolute level, risk score and Phase A rationale of
\* every row as Phase A set them, and no step of the call changes the
\* caller's indicators table
C8_PhaseBNonDestructive ==
    [][/\ indicators' = indicators
       /\ (pc = "relative") =>
            /\ Len(result') = Len(result)
            /\ \A i \in 1..Len(result) :
                  /\ result'[i].abs_level = result[i].abs_level
                  /\ result'[i].risk_score = result[i].risk_score
                  /\ result'[i].risk_factors = result[i].risk_factors]_vars

\* a finished relative run that holds, side by side, an absolute level low
\* and a relative level high for the same row
C8_Witness ==
    /\ RelativeDone
    /\ \E i \in 1..Len(result) :
          /\ result[i].abs_level = LowRisk
          /\ result[i].rel_level = HighRisk
          /\ result[i].risk_score = ExpectedScore(indicators[i])

----------------------------------------------------------------------------
(* Properties of the linker and of main *)

\* C9: when no project identifier equals a transaction identifier,
\* preprocess_data returns None, main stops there, and no absorption result
\* or rollup is computed
C9_ZeroMatchAbort ==
    (/\ lpc \in {"preprocessed", "stopped", "calculate", "city", "district", "menu"}
     /\ MatchedIds(community_data, transaction_data) = {})
    => /\ preprocess_ret = None
       /\ lpc \in {"preprocessed", "stopped"}
       /\ analysis_result = None
       /\ city_analysis = None
       /\ district_analysis = None

\* C10: every transaction is attributed to at most one project: the linked
\* counts of all projects together never exceed the number of transactions,
\* in the absorption result and in calculate_presale_transaction_counts
C10_AtMostOneProject ==
    /\ analysis_result # None =>
          SeqSum([k \in 1..Len(ValueOf(analysis_result)) |-> ValueOf(analysis_result)[k].sold])
             <= Len(transaction_data)
    /\ transaction_counts # None =>
          SeqSum(ValueOf(transaction_counts)) <= Len(transaction_data)

----------------------------------------------------------------------------
(* Properties of count_transactions_for_community *)

HelperDone == lpc = "helper_done"

\* the pieces of the identifier list of project i, stripped, blanks dropped
ListedIds(i) ==
    IF community_data[i].id_list = Missing THEN <<>>
    ELSE LET l == community_data[i].id_list
         IN [k \in {j \in 1..Len(l) : Strip(l[j]) # ""} |-> Strip(l[k])]

\* pairs (entry of the identifier list of project i, transaction) whose
\* identifiers are equal
IdHits(i) ==
    {p \in (DOMAIN ListedIds(i)) \X (1..Len(transaction_data)) :
        transaction_data[p[2]].ref = ListedIds(i)[p[1]]}

\* transactions whose composite key equals the key of project i
KeyHits(i) ==
    {t \in 1..Len(transaction_data) :
        TransactionKey(transaction_data[t]) = CommunityKey(community_data[i])}

\* C11: when an identifier of the list of a project occurs among the
\* transaction identifiers the count is the sum of the counts of the listed
\* identifiers and the composite key plays no part; otherwise the count is
\* the number of transactions with exactly the project's composite key
C11_IdThenCompositeKey ==
    HelperDone =>
        \A i \in 1..Len(community_data) :
            ValueOf(transaction_counts)[i] =
                IF IdHits(i) # {} THEN Cardinality(IdHits(i)) ELSE Cardinality(KeyHits(i))

\* one project counted by identifier although its composite key matches a
\* different number of transactions, and one counted by its composite key
C11_Witness ==
    /\ HelperDone
    /\ \E i, j \in 1..Len(community_data) :
          /\ IdHits(i) # {}
          /\ KeyHits(i) # {}
          /\ Cardinality(KeyHits(i)) # Cardinality(IdHits(i))
          /\ ValueOf(transaction_counts)[i] = Cardinality(IdHits(i))
          /\ IdHits(j) = {}
          /\ ValueOf(transaction_counts)[j] = Cardinality(KeyHits(j))
          /\ ValueOf(transaction_counts)[j] > 0

----------------------------------------------------------------------------
(* Properties of identifier matching *)

\* calculate_time_adjusted_absorption_rate has returned
Calculated == lpc \in {"city", "district", "menu", "trends"}

\* transactions whose identifier equals the text `id` once both are trimmed
TrimmedMatches(id) ==
    {t \in 1..Len(transaction_data) :
        /\ transaction_data[t].ref # Missing
        /\ Strip(transaction_data[t].ref) = Strip(id)}

\* pairs (entry of the identifier list of project i, transaction) whose
\* identifiers are equal once both are trimmed
TrimmedIdHits(i) ==
    {p \in (DOMAIN ListedIds(i)) \X (1..Len(transaction_data)) :
        p[2] \in TrimmedMatches(ListedIds(i)[p[1]])}

\* C12: identifiers that differ only by leading or trailing whitespace are
\* matched: in the main flow a project whose trimmed identifier is the trimmed
\* identifier of a transaction is in the analysis result with that transaction
\* among its sold units, and in the helper library such a project is counted
\* by identifier
C12_TrimmedIdentifiersMatch ==
    /\ Calculated =>
          \A i \in 1..Len(community_data) :
              (community_data[i].id # Missing /\ TrimmedMatches(community_data[i].id) # {}) =>
                  /\ analysis_result # None
                  /\ \E k \in 1..Len(ValueOf(analysis_result)) :
                        /\ ValueOf(analysis_result)[k].id = community_data[i].id
                        /\ ValueOf(analysis_result)[k].sold =
                              Cardinality(TrimmedMatches(community_data[i].id))
    /\ HelperDone =>
          \A i \in 1..Len(community_data) :
              TrimmedIdHits(i) # {} =>
                  ValueOf(transaction_counts)[i] = Cardinality(TrimmedIdHits(i))

----------------------------------------------------------------------------
(* Properties of the date normalizers *)

Returned == fn_out # None

IsNormalizer == fn_name \in {"convert_taiwan_date", "_convert_roc_date", "parse_mixed_date_to_datetime"}

\* the input is era_year*10000 + month*100 + day for an era year in 1..200
EraYearOf(n) == n \div 10000

MonthOf(n) == (n % 10000) \div 100

DayOf(n) == n % 100

IsEncoded(n) == n > 0 /\ EraYearOf(n) \in 1..200

IsValidEncoded(n) ==
    /\ IsEncoded(n)
    /\ MonthOf(n) \in 1..12
    /\ DayOf(n) >= 1
    /\ DayOf(n) <= DaysInMonth(EraYearOf(n) + 1911, MonthOf(n))

\* C18: each normalizer maps era_year*10000 + month*100 + day, for every era
\* year in 1..200 and every valid month and day, to the date of year
\* era_year + 1911 with the same month and day, and maps month 13 or day 32
\* to null
C18_CalendarRoundTrip ==
    (IsNormalizer /\ Returned /\ IsEncoded(fn_arg)) =>
        /\ IsValidEncoded(fn_arg) =>
              ValueOf(fn_out) = Some(<<EraYearOf(fn_arg) + 1911, MonthOf(fn_arg), DayOf(fn_arg)>>)
        /\ (MonthOf(fn_arg) = 13 \/ DayOf(fn_arg) = 32) => ValueOf(fn_out) = None

\* C19: convert_taiwan_date and _convert_roc_date return null for zero, for
\* NaN, for every negative number and for every number whose digit count is
\* neither 6 nor 7
C19_NullForMalformed ==
    (fn_name \in {"convert_taiwan_date", "_convert_roc_date"} /\ Returned) =>
        ((fn_arg = NaN \/ fn_arg <= 0 \/ Len(Digits(fn_arg)) \notin {6, 7})
            => ValueOf(fn_out) = None)

----------------------------------------------------------------------------
(* Properties of categorize_performance *)

Labelled == fn_name = "categorize_performance" /\ fn_out # None

\* the decision table as a set of rows: days band, rate band, label; a band
\* is <<low, high>> and holds x when low < x <= high for rates and
\* low <= x < high for days
LabelTable ==
    { <<<<0, 90>>, <<2000, 1000000>>, "hot_new_launch">>,
      <<<<0, 90>>, <<1000, 2000>>, "steady_new_launch">>,
      <<<<0, 90>>, <<0 - 1, 1000>>, "watch">>,
      <<<<90, 365>>, <<7000, 1000000>>, "excellent">>,
      <<<<90, 365>>, <<4000, 7000>>, "good">>,
      <<<<90, 365>>, <<2000, 4000>>, "average">>,
      <<<<90, 365>>, <<0 - 1, 2000>>, "slow">>,
      <<<<365, 1000000>>, <<8000, 1000000>>, "stable_long_term">>,
      <<<<365, 1000000>>, <<5000, 8000>>, "continuing">>,
      <<<<365, 1000000>>, <<3000, 5000>>, "sluggish">>,
      <<<<365, 1000000>>, <<0 - 1, 3000>>, "difficult">> }

LabelRowsFor(days, rate) ==
    {r \in LabelTable : /\ r[1][1] <= days /\ days < r[1][2]
                        /\ r[2][1] < rate /\ rate <= r[2][2]}

\* C15: every (days, rate) falls in exactly one row of the decision table
\* and gets the label of that row; a rate equal to a threshold is in the
\* lower-rate row, days 90 and 365 are in the later-days band
C15_DecisionTable ==
    Labelled =>
        /\ Cardinality(LabelRowsFor(fn_arg.days, fn_arg.rate)) = 1
        /\ \A r \in LabelRowsFor(fn_arg.days, fn_arg.rate) : ValueOf(fn_out) = r[3]

\* days exactly 90 with a rate of exactly 20%: the middle band's lowest label
C15_Witness ==
    /\ Labelled
    /\ fn_arg.days = 90
    /\ fn_arg.rate = 2000
    /\ ValueOf(fn_out) = "slow"

----------------------------------------------------------------------------
(* Properties of the main flow *)

Trends == lpc = "trends" /\ quarterly_analysis # None

\* quarter p is not later than quarter q
ChronLe(p, q) == p[1] < q[1] \/ (p[1] = q[1] /\ p[2] <= q[2])

\* transactions of project `ref` dated in a quarter up to and including q
LinkedUpTo(ref, q) ==
    Cardinality({t \in 1..Len(transaction_data) :
                    /\ transaction_data[t].ref = ref
                    /\ transaction_data[t].quarter # None
                    /\ ChronLe(transaction_data[t].quarter, q)})

\* C13: in the quarterly series of analyze_quarterly_trends the cumulative
\* units sold of a row is the number of the project's transactions of the
\* quarters up to and including the row's quarter, so that the series of a
\* project taken in chronological order never decreases and ends at the
\* project's total
C13_QuarterlyCumulative ==
    Trends =>
        LET q == ValueOf(quarterly_analysis)
        IN \A k \in 1..Len(q) : q[k].cum = LinkedUpTo(q[k].ref, q[k].quarter)

\* both rollups of main are done
RolledUp == lpc \in {"menu", "trends"} /\ city_analysis # None /\ district_analysis # None

\* rows of analysis_result that belong to the group `key` of groupby(cols)
GroupMembers(key, cols) ==
    {k \in 1..Len(ValueOf(analysis_result)) : GroupKey(ValueOf(analysis_result)[k], cols) = key}

RECURSIVE SumOver(_, _)
SumOver(members, field) ==
    IF members = {} THEN 0
    ELSE LET k == CHOOSE m \in members : TRUE
         IN ValueOf(analysis_result)[k][field] + SumOver(members \ {k}, field)

Abs(x) == IF x < 0 THEN 0 - x ELSE x

\* the group's overall rate is sum(sold) / sum(units) of its members as a
\* percentage with 2 decimals (held in hundredths)
IsWeightedRate(g, cols) ==
    LET members == GroupMembers(g.key, cols)
        sold == SumOver(members, "sold")
        units == SumOver(members, "units")
    IN 2 * Abs(g.overall * units - sold * 10000) <= units

\* C14: in the city rollup and in the district rollup the overall absorption
\* rate of every group is sum(units sold) / sum(total units) over the
\* projects of the group, as a percentage
C14_RollupWeighting ==
    RolledUp =>
        /\ \A g \in ValueOf(city_analysis) : IsWeightedRate(g, <<"city">>)
        /\ \A g \in ValueOf(district_analysis) : IsWeightedRate(g, <<"city", "district">>)

\* a district of two projects whose weighted rate differs from the mean of
\* their two rates by more than the rounding
C14_Witness ==
    /\ RolledUp
    /\ \E g \in ValueOf(district_analysis) :
          /\ g.communities = 2
          /\ IsWeightedRate(g, <<"city", "district">>)
          /\ Abs(g.overall * g.mean_rate.count - g.mean_rate.sum) > g.mean_rate.count

\* C16: for every project of the analysis result elapsed days is
\* max(0, current_date - start date) and never negative, elapsed months is
\* max(0.5, days / 30.44) and never below 0.5, and the monthly rate is the
\* absorption rate divided by the elapsed months (2 decimals)
C16_ElapsedTimeFloors ==
    (Calculated /\ analysis_result # None) =>
        \A k \in 1..Len(ValueOf(analysis_result)) :
            LET r == ValueOf(analysis_result)[k]
                elapsed == DayNumber(current_date) - DayNumber(ValueOf(r.start))
            IN /\ r.days >= 0
               /\ r.start # None => r.days = (IF elapsed > 0 THEN elapsed ELSE 0)
               /\ r.months >= 1522
               /\ r.months = (IF r.days * 100 > 1522 THEN r.days * 100 ELSE 1522)
               /\ 2 * Abs(r.monthly * r.months - r.rate * 3044) <= r.months

\* a project with sold units whose start date is after the analysis date:
\* 0 days, 0.5 month, monthly rate twice the absorption rate
C16_Witness ==
    /\ Calculated
    /\ analysis_result # None
    /\ \E k \in 1..Len(ValueOf(analysis_result)) :
          LET r == ValueOf(analysis_result)[k]
          IN /\ r.start # None
             /\ DayNumber(ValueOf(r.start)) > DayNumber(current_date)
             /\ r.days = 0
             /\ r.months = 1522
             /\ r.sold > 0
             /\ r.monthly = 2 * r.rate

----------------------------------------------------------------------------
(* Properties of the marketing start date *)

StartTimeDone == fn_name = "sales_start_time" /\ fn_out # None

PeriodDone == fn_name = "calculate_sales_period" /\ fn_out # None

\* the four columns in the priority order of the claim
PriorityColumns == <<"self_time", "agent_time", "check_date", "permit_date">>

PresentColumns == {k \in 1..4 : fn_arg[PriorityColumns[k]] # NaText}

\* C17 as stated: the start is the first non-null of self-sale start,
\* agent-sale start, registration-completion date, permit-issuance date, and
\* is null (empty) only when all four are null
C17_FirstNonNullInPriorityOrder ==
    StartTimeDone =>
        IF PresentColumns = {} THEN ValueOf(fn_out) = <<>>
        ELSE LET first == CHOOSE k \in PresentColumns : \A j \in PresentColumns : k <= j
             IN ValueOf(fn_out) = TextStrip(fn_arg[PriorityColumns[first]])

IsNumberText(t) == PyInt(TextStrip(t)) # None

NumberOf(t) == ValueOf(PyInt(TextStrip(t)))

\* C17 amended: when only one of the self-sale and agent-sale starts is
\* present it is the start; when both are present the start is the earlier
\* (numerically smaller) of the two, and empty if one of them is not a
\* number; when both are missing the start is the registration-completion
\* date, else the permit-issuance date, else empty.  The start date of
\* calculate_sales_period is the first date present among 銷售起始時間,
\* the self-sale start and the agent-sale start
C17_EarlierOfSelfAndAgent ==
    /\ StartTimeDone =>
          LET self_time == fn_arg.self_time
              agent_time == fn_arg.agent_time
              out == ValueOf(fn_out)
          IN /\ (self_time # NaText /\ agent_time = NaText) => out = TextStrip(self_time)
             /\ (self_time = NaText /\ agent_time # NaText) => out = TextStrip(agent_time)
             /\ (self_time # NaText /\ agent_time # NaText) =>
                   IF IsNumberText(self_time) /\ IsNumberText(agent_time)
                   THEN /\ PyInt(out) # None
                        /\ ValueOf(PyInt(out)) <= NumberOf(self_time)
                        /\ ValueOf(PyInt(out)) <= NumberOf(agent_time)
                        /\ ValueOf(PyInt(out)) \in {NumberOf(self_time), NumberOf(agent_time)}
                   ELSE out = <<>>
             /\ (self_time = NaText /\ agent_time = NaText) =>
                   out = (IF fn_arg.check_date # NaText THEN TextStrip(fn_arg.check_date)
                          ELSE IF fn_arg.permit_date # NaText THEN TextStrip(fn_arg.permit_date)
                          ELSE <<>>)
    /\ PeriodDone =>
          LET dates == <<convert_taiwan_date(fn_arg.sales_start),
                         convert_taiwan_date(fn_arg.self_start),
                         convert_taiwan_date(fn_arg.agent_start)>>
              present == {k \in 1..3 : dates[k] # None}
          IN IF present = {} THEN ValueOf(fn_out) = None
             ELSE \E k \in present : /\ \A j \in present : k <= j
                                     /\ ValueOf(fn_out) = dates[k]

\* both starts present, the agent-sale start earlier: the agent-sale start
\* is returned
C17_Witness ==
    /\ StartTimeDone
    /\ fn_arg.self_time = Digits(1110701)
    /\ fn_arg.agent_time = Digits(1100101)
    /\ ValueOf(fn_out) = Digits(1100101)

----------------------------------------------------------------------------
(* Properties of repeated runs *)

\* C20: two runs on the same input produce the same sales days, sales
\* months and sales stage, whatever the clock shows when each run executes
C20_RunsAgree ==
    fn_name = "_process_sales_time_data" =>
        \A i, j \in 1..Len(fn_out) : fn_out[i].columns = fn_out[j].columns

----------------------------------------------------------------------------
(* Properties of the Phase A score *)

HasFactor(row, factor) == \E k \in 1..Len(row.risk_factors) : row.risk_factors[k] = factor

\* a rule other than the zero-transaction rule holds of the row's metrics
OtherRuleHolds(row) ==
    \/ (row.rate # NaN /\ (row.rate < 250 \/ row.rate > 650))
    \/ (row.monthly # NaN /\ row.monthly < 50)
    \/ (row.months # NaN /\ row.months > 36)

\* C29: after Phase A the risk score of every row is an integer in 0..10,
\* the two time-adjusted-rate rules never both fire, the two transaction
\* rules never both fire, and a row with zero transactions scores at least
\* 4, is never low risk, and is high risk exactly when another rule fires
C29_ScoreRange ==
    Done =>
        \A i \in 1..Len(result) :
            LET r == result[i]
            IN /\ r.risk_score \in 0..10
               /\ ~(HasFactor(r, "time_adj_rate_low") /\ HasFactor(r, "possible_oversell"))
               /\ ~(HasFactor(r, "no_transactions") /\ HasFactor(r, "volume_very_low"))
               /\ r.trans = 0 =>
                     /\ r.risk_score >= 4
                     /\ r.abs_level # LowRisk
                     /\ (r.abs_level = HighRisk <=> OtherRuleHolds(r))

\* a row with zero transactions and no other rule: score 4, medium risk
C29_Witness ==
    /\ Done
    /\ \E i \in 1..Len(result) :
          /\ result[i].trans = 0
          /\ ~OtherRuleHolds(result[i])
          /\ result[i].risk_score = 4
          /\ result[i].abs_level = MediumRisk

----------------------------------------------------------------------------
(* Properties of the relative level against the composite rank *)

\* severity of a risk level: low 0, medium 1, high 2
Severity(level) == IF level = HighRisk THEN 2 ELSE IF level = MediumRisk THEN 1 ELSE 0

\* C24: within a city with at least 3 rows, of two rows that breach no
\* absolute floor the one with the strictly better (numerically smaller)
\* composite rank has a relative level that is not more severe
C24_LevelMonotoneInRank ==
    RelativeDone =>
        \A i, j \in 1..Len(result) :
            (/\ CityOf(result[i].region) = CityOf(result[j].region)
             /\ CityRowCount(i) >= 3
             /\ ~BreachesFloor(i)
             /\ ~BreachesFloor(j)
             /\ CompositeLess(result[i].city_rank, result[j].city_rank))
            => Severity(result[i].rel_level) <= Severity(result[j].rel_level)

----------------------------------------------------------------------------
(* _calculate_time_weighted_absorption of area_risk_flagging/test_2.py,    *)
(* applied to the rows of a table.  標準去化率 is in thousandths, 平均銷售月數 *)
(* in tenths of a month; a result is the fraction num / den.               *)

baseline_months == 120

RECURSIVE Gcd(_, _)
Gcd(a, b) == IF b = 0 THEN a ELSE Gcd(b, a % b)

\* the fraction n / d (d > 0) in lowest terms
Frac(n, d) == [num |-> n \div Gcd(n, d), den |-> d \div Gcd(n, d)]

\* variant: the time factor is not limited
time_factorUnclamped(sales_months) ==
    [num |-> baseline_months, den |-> sales_months]

\* time_factor of a positive sales_months
time_factor(sales_months) ==
    IF sales_months < baseline_months
    THEN IF baseline_months <= 2 * sales_months
         THEN [num |-> baseline_months, den |-> sales_months]
         ELSE [num |-> 2, den |-> 1]
    ELSE IF 2 * baseline_months >= sales_months
         THEN [num |-> baseline_months, den |-> sales_months]
         ELSE [num |-> 1, den |-> 2]

calculate_time_weighted_absorption(standard_rate, sales_months) ==
    IF standard_rate = NaN \/ sales_months = NaN \/ sales_months <= 0
    THEN [num |-> 0, den |-> 1]
    ELSE LET factor == time_factor(sales_months)
             adjusted_rate == Frac(standard_rate * factor.num, 1000 * factor.den)
         IN IF adjusted_rate.num <= adjusted_rate.den
            THEN adjusted_rate
            ELSE [num |-> 1, den |-> 1]

\* merged.apply(lambda row: _calculate_time_weighted_absorption(...), axis=1)
TimeAdjustedColumn(merged) ==
    [i \in DOMAIN merged |->
        calculate_time_weighted_absorption(merged[i].rate, merged[i].months)]

\* rows on both sides of the baseline and of both limits of the factor
RateRows ==
    [rate : {NaN, 0, 300, 500, 1000},
     months : {NaN, -10, 0, 30, 60, 90, 120, 180, 240, 300}]

InitRate ==
    /\ fn_name = "_calculate_time_weighted_absorption"
    /\ \E n \in 1..MaxRateRows : fn_arg \in [1..n -> RateRows]
    /\ fn_out = None
    /\ RiskIdle
    /\ LinkIdle

CalculateTimeWeightedAbsorption ==
    /\ fn_name = "_calculate_time_weighted_absorption"
    /\ fn_out = None
    /\ fn_out' = Some(TimeAdjustedColumn(fn_arg))
    /\ UNCHANGED <<fn_name, fn_arg, riskVars, linkVars>>

NextRate == CalculateTimeWeightedAbsorption

SpecRate == InitRate /\ [][NextRate]_vars

----------------------------------------------------------------------------
(* Properties of the time-weighted rate *)

RateDone == fn_name = "_calculate_time_weighted_absorption" /\ fn_out # None

FracLe(a, b) == a.num * b.den <= b.num * a.den

FracEq(a, b) == a.num * b.den = b.num * a.den

\* 12 / months limited to [0.5, 2.0], for positive months
ClampedFactor(months) ==
    LET raw == [num |-> 120, den |-> months]
    IN IF FracLe([num |-> 2, den |-> 1], raw) THEN [num |-> 2, den |-> 1]
       ELSE IF FracLe(raw, [num |-> 1, den |-> 2]) THEN [num |-> 1, den |-> 2]
       ELSE raw

\* min(1, rate x factor) of a rate in thousandths
CappedProduct(rate, factor) ==
    LET p == Frac(rate * factor.num, 1000 * factor.den)
    IN IF FracLe([num |-> 1, den |-> 1], p) THEN [num |-> 1, den |-> 1] ELSE p

\* C30 as stated in its last part: for a fixed standard rate the
\* time-adjusted rate does not increase when the sales months increase
C30_NonIncreasingInMonths ==
    RateDone =>
        \A i, j \in 1..Len(fn_arg) :
            (/\ fn_arg[i].rate # NaN
             /\ fn_arg[i].rate = fn_arg[j].rate
             /\ fn_arg[i].months # NaN
             /\ fn_arg[j].months # NaN
             /\ fn_arg[i].months <= fn_arg[j].months)
            => FracLe(ValueOf(fn_out)[j], ValueOf(fn_out)[i])

\* C30 amended: the result is 0 when the rate or the months are missing or
\* the months are <= 0, and otherwise min(1, rate x factor) with factor =
\* 12 / months limited to [0.5, 2.0]; for a rate in [0, 1] it lies in
\* [0, 1]; for a fixed rate it does not increase when positive sales months
\* increase
C30_TimeWeightedAbsorption ==
    RateDone =>
        /\ \A i \in 1..Len(fn_arg) :
              LET row == fn_arg[i]
                  out == ValueOf(fn_out)[i]
              IN /\ (row.rate = NaN \/ row.months = NaN \/ row.months <= 0)
                        => out.num = 0
                 /\ (row.rate # NaN /\ row.months # NaN /\ row.months > 0)
                        => FracEq(out, CappedProduct(row.rate, ClampedFactor(row.months)))
                 /\ (row.rate = NaN \/ row.rate \in 0..1000)
                        => (out.num >= 0 /\ out.den > 0 /\ out.num <= out.den)
        /\ \A i, j \in 1..Len(fn_arg) :
              (/\ fn_arg[i].rate # NaN
               /\ fn_arg[i].rate = fn_arg[j].rate
               /\ fn_arg[i].months # NaN
               /\ fn_arg[i].months > 0
               /\ fn_arg[i].months <= fn_arg[j].months)
              => FracLe(ValueOf(fn_out)[j], ValueOf(fn_out)[i])

\* two rows of the same positive rate, the one with more sales months
\* having the strictly smaller result, next to a row that is sold for
\* less than 6 months and gets twice its rate
C30_Witness ==
    /\ RateDone
    /\ \E i, j \in 1..Len(fn_arg) :
          /\ fn_arg[i].rate = 300
          /\ fn_arg[j].rate = 300
          /\ fn_arg[i].months = 30
          /\ fn_arg[j].months = 180
          /\ FracEq(ValueOf(fn_out)[i], [num |-> 600, den |-> 1000])
          /\ FracEq(ValueOf(fn_out)[j], [num |-> 200, den |-> 1000])

----------------------------------------------------------------------------
(* Properties of the rows of analysis_result *)

\* calculate_time_adjusted_absorption_rate has returned with a result
CalculatedResult == Calculated /\ analysis_result # None

\* identifiers of the projects that have a linked transaction
LinkedProjectIds ==
    ({community_data[k].id : k \in 1..Len(community_data)}
        \cap {transaction_data[t].ref : t \in 1..Len(transaction_data)})
        \ {Missing}

\* C25: every row of analysis_result has 已售戶數 >= 1; the result holds
\* exactly the projects whose identifier occurs among the transaction
\* identifiers, so a project with no linked transaction is absent
C25_EveryRowSold ==
    CalculatedResult =>
        LET rows == ValueOf(analysis_result)
        IN /\ \A k \in 1..Len(rows) : rows[k].sold >= 1
           /\ {rows[k].id : k \in 1..Len(rows)} = LinkedProjectIds
           /\ Len(rows) = Cardinality({k \in 1..Len(community_data) :
                                          community_data[k].id \in LinkedProjectIds})

\* a result next to a project without any linked transaction
C25_Witness ==
    /\ CalculatedResult
    /\ \E k \in 1..Len(community_data) :
          /\ community_data[k].id # Missing
          /\ \A t \in 1..Len(transaction_data) : transaction_data[t].ref # community_data[k].id
          /\ \A r \in 1..Len(ValueOf(analysis_result)) :
                ValueOf(analysis_result)[r].id # community_data[k].id

----------------------------------------------------------------------------
(* Properties of projects whose 戶數 is 0 *)

\* the group's rate-based values are those of its members with 戶數 > 0
\* and its project count is that of all its members
ExcludesZeroUnits(g, cols) ==
    LET members == GroupMembers(g.key, cols)
        rated == {k \in members : ValueOf(analysis_result)[k].units > 0}
    IN /\ g.communities = Cardinality(members)
       /\ g.mean_rate.sum # Inf
       /\ g.overall # Inf
       /\ rated # {} =>
             /\ g.mean_rate.sum = SumOver(rated, "rate")
             /\ g.mean_rate.count = Cardinality(rated)
             /\ g.overall = AbsorptionRate(SumOver(rated, "sold"), SumOver(rated, "units"))

\* C21: a project with 戶數 = 0 has no defined absorption rate or monthly
\* rate; its district and city count it as a project but take their mean
\* rates and overall rate from the other projects only, so that no
\* infinite or undefined rate enters a rollup
C21_ZeroUnitsExcluded ==
    RolledUp =>
        /\ \A k \in 1..Len(ValueOf(analysis_result)) :
              ValueOf(analysis_result)[k].units = 0
                  => /\ ValueOf(analysis_result)[k].rate = NaN
                     /\ ValueOf(analysis_result)[k].monthly = NaN
        /\ \A g \in ValueOf(city_analysis) : ExcludesZeroUnits(g, <<"city">>)
        /\ \A g \in ValueOf(district_analysis) : ExcludesZeroUnits(g, <<"city", "district">>)

----------------------------------------------------------------------------
(* Properties of a session of calls *)

\* the methods that C23 names
GuardedMethods ==
    {"analyze_quarterly_trends", "analyze_district_performance", "analyze_city_performance",
     "analyze_city_detailed", "analyze_single_city", "generate_time_aware_report",
     "analyze_market_efficiency", "export_time_aware_results"}

\* C23: while analysis_result is None (also after a calculation that found
\* no matching identifier) every call of a method of GuardedMethods returns
\* without raising and leaves analysis_result, quarterly_analysis,
\* district_analysis, city_analysis and city_detailed_analysis unchanged
C23_CallOrderSafety ==
    [][(lpc = "session" /\ analysis_result = None /\ fn_name' \in GuardedMethods)
          => /\ fn_out' = Some("returned")
             /\ UNCHANGED <<analysis_result, quarterly_analysis, district_analysis,
                            city_analysis, city_detailed_analysis>>]_vars

\* `groups` is the rollup of the current analysis_result by `cols`: one
\* group per key, with the sums, the number and the overall rate of the
\* rows that have the key now
IsRollupOfResult(groups, cols) ==
    /\ {g.key : g \in groups}
          = {GroupKey(ValueOf(analysis_result)[k], cols) : k \in 1..Len(ValueOf(analysis_result))}
    /\ \A g \in groups :
          LET members == GroupMembers(g.key, cols)
          IN /\ g.units = SumOver(members, "units")
             /\ g.sold = SumOver(members, "sold")
             /\ g.mean_rate = [sum |-> SumOver(members, "rate"), count |-> Cardinality(members)]
             /\ g.communities = Cardinality(members)
             /\ IsWeightedRate(g, cols)

\* the quarterly table is the one a new analyze_quarterly_trends would
\* give: its projects are those of the current analysis_result with a dated
\* transaction, and every row has the number of the project's transactions
\* of its quarter
IsQuarterlyOfResult(q) ==
    /\ {q[k].ref : k \in 1..Len(q)}
          = {ValueOf(analysis_result)[r].id : r \in 1..Len(ValueOf(analysis_result))}
               \cap {transaction_data[t].ref :
                       t \in {u \in 1..Len(transaction_data) :
                                 transaction_data[u].quarter # None}}
    /\ \A k \in 1..Len(q) :
          q[k].count = Cardinality({t \in 1..Len(transaction_data) :
                                       /\ transaction_data[t].ref = q[k].ref
                                       /\ transaction_data[t].quarter = q[k].quarter})
    /\ q = analyze_quarterly_trends(community_data, transaction_data)

----------------------------------------------------------------------------
(* correct_sales_start_date of utils/helper_func.py.  A date is a day      *)
(* number and a missing date (NaT) is NaN.  fn_arg.df is the caller's      *)
(* table, the object the function receives and works on; fn_arg.given      *)
(* remembers its content at the first call; fn_out lists what the calls    *)
(* returned.                                                               *)

\* variant: a missing sales start is replaced as well
correct_sales_start_dateFillsMissing(df) ==
    [k \in 1..Len(df) |->
        IF df[k].first_tx # NaN /\ (df[k].start = NaN \/ df[k].start > df[k].first_tx)
        THEN [df[k] EXCEPT !.start = df[k].first_tx]
        ELSE df[k]]

\* mask = notna(sales) & notna(first_tx) & (sales > first_tx);
\* df.loc[mask, sales_col] = df.loc[mask, first_tx_col]
correct_sales_start_date(df) ==
    [k \in 1..Len(df) |->
        IF df[k].start # NaN /\ df[k].first_tx # NaN /\ df[k].start > df[k].first_tx
        THEN [df[k] EXCEPT !.start = df[k].first_tx]
        ELSE df[k]]

DateRows == [code : {"P", "Q"}, start : {NaN, 1, 2, 3}, first_tx : {NaN, 1, 2, 3}]

InitCorrect ==
    /\ fn_name = "correct_sales_start_date"
    /\ \E n \in 1..MaxDateRows : \E df \in [1..n -> DateRows] :
          fn_arg = [given |-> df, df |-> df]
    /\ fn_out = <<>>
    /\ RiskIdle
    /\ LinkIdle

\* df = correct_sales_start_date(df): the rows are written into the table
\* that was passed and that same table is returned
CorrectSalesStartDate ==
    /\ fn_name = "correct_sales_start_date"
    /\ Len(fn_out) < MaxRuns
    /\ fn_arg' = [fn_arg EXCEPT !.df = correct_sales_start_date(fn_arg.df)]
    /\ fn_out' = Append(fn_out, correct_sales_start_date(fn_arg.df))
    /\ UNCHANGED <<fn_name, riskVars, linkVars>>

NextCorrect == CorrectSalesStartDate

SpecCorrect == InitCorrect /\ [][NextCorrect]_vars

----------------------------------------------------------------------------
(* Properties of correct_sales_start_date *)

Corrected == fn_name = "correct_sales_start_date" /\ fn_out # <<>>

\* C22: a core operation does not modify its caller's table: after
\* correct_sales_start_date (one of the operations the claim names) has
\* returned, the table that was passed holds the values it was given
C22_CallerTableUnchanged == Corrected => fn_arg.df = fn_arg.given

\* the sales start of the row is later than its first transaction
StartsLate(row) == row.start # NaN /\ row.first_tx # NaN /\ row.start > row.first_tx

\* C27: correct_sales_start_date replaces the sales start date by the first
\* transaction date exactly in the rows where both are present and the
\* sales start is later; afterwards no row with both dates has a start
\* after its first transaction, every other row and column is as given,
\* and a second application changes nothing
C27_CorrectsLateStarts ==
    Corrected =>
        LET given == fn_arg.given
            out == fn_out[1]
        IN /\ Len(out) = Len(given)
           /\ \A k \in 1..Len(given) :
                 /\ out[k].code = given[k].code
                 /\ out[k].first_tx = given[k].first_tx
                 /\ StartsLate(given[k]) => out[k].start = given[k].first_tx
                 /\ ~StartsLate(given[k]) => out[k].start = given[k].start
                 /\ ~StartsLate(out[k])
           /\ \A r \in 2..Len(fn_out) : fn_out[r] = out

\* applied twice to a table with a late start next to a missing start
C27_Witness ==
    /\ Corrected
    /\ Len(fn_out) = 2
    /\ \E j, k \in 1..Len(fn_arg.given) :
          /\ StartsLate(fn_arg.given[j])
          /\ fn_out[2][j].start = fn_arg.given[j].first_tx
          /\ fn_arg.given[k].start = NaN
          /\ fn_arg.given[k].first_tx # NaN
          /\ fn_out[2][k].start = NaN

----------------------------------------------------------------------------
(* process_duplicate_communities of utils/helper_func.py.  銷售起始時間 is  *)
(* a day number or NaN (for which pd.to_datetime(errors='coerce') gives    *)
(* NaT); 關連編號 is the list of the codes that ', '.join writes, or None.   *)
(* The index of the table is 1..Len(df).                                   *)

BeanApartment == "spring_bean_apartment"

BeanHouse == "spring_bean_house"

\* df['行政區'].astype(str) + '|' + df['建照執照'].astype(str) + '|' + df['經度'].astype(str)
DupGroupKey(row) == <<row.district, row.permit, row.lon>>

\* identify_duplicate_groups: the index sets of the keys that occur more
\* than once
identify_duplicate_groups(df) ==
    {G \in {{k \in 1..Len(df) : DupGroupKey(df[k]) = DupGroupKey(df[j])} : j \in 1..Len(df)} :
        Cardinality(G) > 1}

is_spring_bean_case(df, G) ==
    /\ \E k \in G : df[k].name = BeanApartment
    /\ \E k \in G : df[k].name = BeanHouse

SumField(df, G, field) ==
    SeqSum([k \in 1..Len(df) |-> IF k \in G THEN df[k][field] ELSE 0])

\* the codes of the rows S in index order, and the non-missing 備查編號清單
\* of the rows S in index order
CodesOf(df, S) == LET idx == SetToSortedSeq(S) IN [j \in 1..Len(idx) |-> df[idx[j]].code]

BackupNumbers(df, S) ==
    LET idx == SetToSortedSeq({k \in S : df[k].backup # None})
    IN [j \in 1..Len(idx) |-> ValueOf(df[idx[j]].backup)]

Min(S) == CHOOSE m \in S : \A n \in S : m <= n

\* the rows of the group with the latest 銷售起始時間; max() of a column of
\* NaT only is NaT, and no row compares equal to NaT
LatestRecords(df, G) ==
    LET dated == {k \in G : df[k].start # NaN}
    IN {k \in dated : \A j \in dated : df[j].start <= df[k].start}

\* valid_idx of process_general_case; 0 stands for the ValueError that
\* idxmax raises on an empty selection
valid_idx(df, G) ==
    LET latest_records == LatestRecords(df, G)
    IN IF Cardinality(latest_records) = 1 THEN CHOOSE k \in latest_records : TRUE
       ELSE IF latest_records = {} THEN 0
       ELSE Min({k \in latest_records :
                   \A j \in latest_records : df[j].tx <= df[k].tx})

\* the rows of the group after the row v was made its valid row
MarkGroup(df, G, v, units) ==
    [k \in 1..Len(df) |->
        IF k = v
        THEN [df[k] EXCEPT !.units = units,
                           !.tx = SumField(df, G, "tx"),
                           !.cancels = SumField(df, G, "cancels"),
                           !.backup = Some(BackupNumbers(df, G)),
                           !.link = Some(CodesOf(df, G \ {v}))]
        ELSE IF k \in G
        THEN [df[k] EXCEPT !.validity = 0, !.link = None]
        ELSE df[k]]

process_spring_bean_case(df, G) ==
    MarkGroup(df, G, Min(G), SumField(df, G, "units"))

process_general_case(df, G) ==
    MarkGroup(df, G, valid_idx(df, G), df[valid_idx(df, G)].units)

\* process_single_group raises when process_general_case does
GroupRaises(df, G) == ~is_spring_bean_case(df, G) /\ valid_idx(df, G) = 0

process_single_group(df, G) ==
    IF is_spring_bean_case(df, G) THEN process_spring_bean_case(df, G)
    ELSE process_general_case(df, G)

RECURSIVE ProcessGroups(_, _)
ProcessGroups(df, groups) ==
    IF groups = {} THEN df
    ELSE LET G == CHOOSE H \in groups : TRUE
         IN ProcessGroups(process_single_group(df, G), groups \ {G})

\* the call ends with the exception of its first failing group, or returns
\* the processed copy
process_duplicate_communities(df) ==
    LET df_processed == [k \in 1..Len(df) |->
                            [code |-> df[k].code, district |-> df[k].district,
                             permit |-> df[k].permit, lon |-> df[k].lon,
                             name |-> df[k].name, start |-> df[k].start,
                             units |-> df[k].units, tx |-> df[k].tx,
                             cancels |-> df[k].cancels, backup |-> df[k].backup,
                             validity |-> 1, link |-> None]]
        groups == identify_duplicate_groups(df_processed)
    IN IF \E G \in groups : GroupRaises(df_processed, G)
       THEN [raised |-> "ValueError", df_processed |-> <<>>]
       ELSE [raised |-> "", df_processed |-> ProcessGroups(df_processed, groups)]

DupCodes == <<"c1", "c2", "c3", "c4">>

DupProfiles ==
    [permit : {"p1", "p2"}, name : {BeanApartment, BeanHouse, "n1"},
     start : {NaN, 1, 2}, tx : {1, 2}]

DupRow(k, p) ==
    [code |-> DupCodes[k], district |-> "d1", permit |-> p.permit, lon |-> 121,
     name |-> p.name, start |-> p.start, units |-> 5, tx |-> p.tx, cancels |-> 1,
     backup |-> IF k = 1 THEN None ELSE Some(DupCodes[k])]

InitDup ==
    /\ fn_name = "process_duplicate_communities"
    /\ \E n \in 1..MaxDupRows : \E f \in [1..n -> DupProfiles] :
          fn_arg = [k \in 1..n |-> DupRow(k, f[k])]
    /\ fn_out = None
    /\ RiskIdle
    /\ LinkIdle

ProcessDuplicateCommunities ==
    /\ fn_name = "process_duplicate_communities"
    /\ fn_out = None
    /\ fn_out' = Some(process_duplicate_communities(fn_arg))
    /\ UNCHANGED <<fn_name, fn_arg, riskVars, linkVars>>

NextDup == ProcessDuplicateCommunities

SpecDup == InitDup /\ [][NextDup]_vars

----------------------------------------------------------------------------
(* Properties of process_duplicate_communities *)

DupDone == fn_name = "process_duplicate_communities" /\ fn_out # None

\* the rows that share district, building permit and longitude with row k
DupGroupOf(k) == {j \in 1..Len(fn_arg) : DupGroupKey(fn_arg[j]) = DupGroupKey(fn_arg[k])}

\* C28: process_duplicate_communities completes without error on every
\* table; in every duplicate group (also one whose sales start dates are
\* all missing or all equal) exactly one row is valid (1) and the others
\* are invalid (0), the valid row's 關連編號 lists exactly the codes of the
\* invalidated rows and theirs is empty; a row outside every group stays
\* valid with an empty 關連編號
C28_OneValidPerGroup ==
    DupDone =>
        LET out == ValueOf(fn_out)
            df == out.df_processed
        IN /\ out.raised = ""
           /\ Len(df) = Len(fn_arg)
           /\ \A k \in 1..Len(df) :
                 LET G == DupGroupOf(k)
                 IN IF Cardinality(G) = 1
                    THEN df[k].validity = 1 /\ df[k].link = None
                    ELSE /\ Cardinality({j \in G : df[j].validity = 1}) = 1
                         /\ \A j \in G : df[j].validity \in {0, 1}
                         /\ df[k].validity = 0 => df[k].link = None
                         /\ df[k].validity = 1 =>
                               /\ df[k].link # None
                               /\ Len(ValueOf(df[k].link)) = Cardinality(G) - 1
                               /\ {ValueOf(df[k].link)[i] : i \in 1..Len(ValueOf(df[k].link))}
                                     = {fn_arg[j].code : j \in G \ {k}}

====
